---- MODULE Spec2Model ----
(***************************************************************************)
(* Model of the tobes-ui acquisition engine: the TorchBearer frame codec   *)
(* (tobes_ui/protocol.py) and the device session built on it               *)
(* (tobes_ui/spectrometers/torchbearer.py).                                *)
(*                                                                         *)
(* Bytes are integers 0..255, byte strings are sequences of bytes.         *)
(* Python indices are 0-based; the helpers PySlice and PyIndex carry the   *)
(* Python semantics (negative indices, clamping) into 1-based sequences.   *)
(***************************************************************************)
EXTENDS Integers, Sequences, FiniteSets, Bags, TLC

(***************************************************************************)
(* Bounds of the model                                                     *)
(***************************************************************************)
MaxFrames == 2
MaxCap == 3
MaxInFlight == 2
MaxQueued == 1

\* auto-exposure: the largest hardware limit of the integration time, and
\* the largest auto_max_iterations
MaxTime == 48

MaxIterations == 3

VARIABLES
  cframes,   \* codec: the (type, payload) pairs the input is made of
  ctail,     \* codec: bytes of the incomplete frame that ends the input
  cdata,     \* codec: the byte buffer handed to parse_messages
  cmark,     \* codec: offset of the corrupted byte, -1 when none
  ccap,      \* codec: max_messages of the last parse_messages call
  cbuilt,    \* codec: bytes returned by build_message
  cout,      \* codec: result of the last parse_messages call
  cop        \* codec: the last operation applied

codecVars == <<cframes, ctail, cdata, cmark, ccap, cbuilt, cout, cop>>

VARIABLES
  buffer,            \* self.buffer
  wavelength_range,  \* self.wavelength_range: <<>> is None, <<r>> a range
  exposure_mode,     \* self.exposure_mode: <<>> is None
  device_id,         \* self.device_id: <<>> is None, <<s>> a string
  wire,              \* bytes the device wrote and port.read() has not returned
  pc,                \* the function the worker is reading in, or "idle"
  call,              \* the operation the client called
  locals,            \* stream_data: spec_range, mode, device_id, last_ok
  result,            \* how the last operation ended
  pending,           \* the frames of wire and buffer, oldest first
  rx,                \* the message the last worker action parsed, if any
  tx,                \* the message types the last worker action sent
  cb,                \* the call of where_to in the last worker action, if any
  port,              \* self.port: <<>> is None, <<g>> an open port whose
                     \* read() returns bytes with granularity g
  faulted,           \* a framing error was raised in this session
  running,           \* main.py: RefreshableSpectralPlot.running
  thread,            \* main.py: the worker thread: "none", "alive" or "dead"
  main               \* main.py: where the main thread is

sessionVars ==
  <<buffer, wavelength_range, exposure_mode, device_id, wire, pc, call,
    locals, result, pending, rx, tx, cb, port, faulted>>

appVars == <<running, thread, main>>

VARIABLES
  hw,          \* oceanoptics.py: integration_time_micros_limits, low and high
  props,       \* oceanoptics.py: self._props; <<>> is None
  gain,        \* the simulated instrument: its response to the time
  instrument,  \* the instrument: time programmed, _integration_time_set,
               \* the reads of spectrum() so far, the times programmed so far
  ctl,         \* _spd_with_auto: its local variables
  apc,         \* _spd_with_auto: where the run is
  returned,    \* _spd_with_auto: <<>>, or <<r>> with r the value returned
  acquired     \* stream_data: the acquisitions its loop has finished

autoVars == <<hw, props, gain, instrument, ctl, apc, returned, acquired>>

VARIABLES
  sliding,     \* common.py: a SlidingMax object; <<>> when none was built
  clock,       \* common.py: what time.time() returned last, in ticks
  entered,     \* the (timestamp, value) pairs passed to SlidingMax.add, and
               \* whether the window was given another size since it was built
  outcome,     \* how the last SlidingMax operation ended
  aggregator,  \* common.py: a SpectrumAggregator; <<>> when none was built
  instance,    \* the record last passed to SpectrumAggregator.add, as it is
               \* now; <<>> when there is none
  given,       \* the samples passed to add since the last clear, as they
               \* were when passed, and how many of them the window keeps
  aggregate    \* how the last SpectrumAggregator operation ended; for an
               \* add, the record returned, whether it is the record passed,
               \* the record passed as it was before and as the call left
               \* it, and the operation the add follows

slidingVars == <<sliding, clock, entered, outcome>>

aggVars == <<aggregator, instance, given, aggregate>>

VARIABLES
  decoding,    \* protocol.py: the last call of _decode_spectrum: its
               \* arguments, its key_a and key_b, the list it returned;
               \* <<>> when there was none
  earlier      \* the arguments and the list returned of an earlier call

decodeVars == <<decoding, earlier>>

commonVars == <<slidingVars, aggVars, decodeVars>>

vars == <<codecVars, sessionVars, appVars, autoVars, commonVars>>

(***************************************************************************)
(* protocol.py: enumerations                                               *)
(***************************************************************************)
STOP == 4
GET_DEVICE_ID == 8
SET_EXPOSURE_MODE == 10
GET_EXPOSURE_MODE == 11
SET_EXPOSURE_VALUE == 12
GET_EXPOSURE_VALUE == 13
GET_RANGE == 15
GET_DATA == 51

MessageType_with_85 ==
  {STOP, GET_DEVICE_ID, SET_EXPOSURE_MODE, GET_EXPOSURE_MODE,
   SET_EXPOSURE_VALUE, GET_EXPOSURE_VALUE, GET_RANGE, GET_DATA, 85}

MessageType ==
  {STOP, GET_DEVICE_ID, SET_EXPOSURE_MODE, GET_EXPOSURE_MODE,
   SET_EXPOSURE_VALUE, GET_EXPOSURE_VALUE, GET_RANGE, GET_DATA}

MANUAL == 0
AUTOMATIC == 1

ExposureMode == {MANUAL, AUTOMATIC}

NORMAL == 0
OVER == 1
UNDER == 2

ExposureStatus == {NORMAL, OVER, UNDER}

(***************************************************************************)
(* Python primitives used by the codec                                     *)
(***************************************************************************)
Min2(a, b) == IF a < b THEN a ELSE b

Max2(a, b) == IF a > b THEN a ELSE b

\* index normalisation of a slice bound: negative counts from the end,
\* everything is clamped into 0..n
PyNorm(i, n) == IF i < 0 THEN Max2(i + n, 0) ELSE Min2(i, n)

\* s[a:b]
PySlice(s, a, b) ==
  LET n == Len(s)
      lo == PyNorm(a, n)
      hi == PyNorm(b, n)
  IN IF lo >= hi THEN <<>> ELSE SubSeq(s, lo + 1, hi)

\* s[i] for an index the caller knows to be in -n..n-1
PyIndex(s, i) == IF i < 0 THEN s[i + Len(s) + 1] ELSE s[i + 1]

\* sum(s): the bag in which index i occurs s[i] + 1 times holds the sum of
\* the s[i] + 1 elements
SumBytes(s) ==
  IF s = <<>> THEN 0
  ELSE BagCardinality([i \in 1..Len(s) |-> s[i] + 1]) - Len(s)

\* int.from_bytes(s, "little")
RECURSIVE FromBytesLittle(_)
FromBytesLittle(s) ==
  IF s = <<>> THEN 0 ELSE s[1] + 256 * FromBytesLittle(Tail(s))

\* int.to_bytes(v, n, "little") for 0 <= v < 256^n
RECURSIVE ToBytesLittle(_, _)
ToBytesLittle(v, n) ==
  IF n = 0 THEN <<>> ELSE <<v % 256>> \o ToBytesLittle(v \div 256, n - 1)

(***************************************************************************)
(* protocol.py: _calculate_checksum, build_message                         *)
(***************************************************************************)
calculate_checksum(message) == SumBytes(message) % 256

build_message_length_without_type(message_type, data) ==
  LET m4 == <<204, 1>> \o ToBytesLittle(8 + Len(data), 3)
              \o ToBytesLittle(message_type, 1) \o data
  IN m4 \o ToBytesLittle(calculate_checksum(m4), 1) \o <<13, 10>>

build_message(message_type, data) ==
  LET m1 == <<204, 1>>
      m2 == m1 \o ToBytesLittle(9 + Len(data), 3)
      m3 == m2 \o ToBytesLittle(message_type, 1)
      m4 == m3 \o data
      m5 == m4 \o ToBytesLittle(calculate_checksum(m4), 1)
  IN m5 \o <<13, 10>>

(***************************************************************************)
(* The result of a call: a returned value or a raised exception            *)
(***************************************************************************)
Raise(e) == [exc |-> e, data |-> <<>>, messages |-> <<>>]

Return(d, m) == [exc |-> "none", data |-> d, messages |-> m]

(***************************************************************************)
(* protocol.py: _parse_message.  A message is a record keyed like the      *)
(* Python dict; a payload the per-type parser cannot read raises.          *)
(***************************************************************************)
IsAscii(data) == \A i \in 1..Len(data) : data[i] < 128

parse_message(message_type, data) ==
  CASE message_type = GET_DEVICE_ID ->
         IF IsAscii(data)
         THEN [exc |-> "none",
               msg |-> [message_type |-> message_type, device_id |-> data]]
         ELSE [exc |-> "UnicodeDecodeError", msg |-> <<>>]
    [] message_type = SET_EXPOSURE_MODE ->
         IF Len(data) = 1
         THEN [exc |-> "none",
               msg |-> [message_type |-> message_type,
                        success |-> (data[1] = 0)]]
         ELSE IF Len(data) = 0
         THEN [exc |-> "IndexError", msg |-> <<>>]
         ELSE IF data[1] \in ExposureMode
         THEN [exc |-> "none",
               msg |-> [message_type |-> message_type,
                        exposure_mode |-> data[1]]]
         ELSE [exc |-> "ValueError", msg |-> <<>>]
    [] message_type = GET_EXPOSURE_MODE ->
         IF Len(data) = 0
         THEN [exc |-> "IndexError", msg |-> <<>>]
         ELSE IF data[1] \in ExposureMode
         THEN [exc |-> "none",
               msg |-> [message_type |-> message_type,
                        exposure_mode |-> data[1]]]
         ELSE [exc |-> "ValueError", msg |-> <<>>]
    [] message_type = SET_EXPOSURE_VALUE ->
         IF Len(data) = 0
         THEN [exc |-> "IndexError", msg |-> <<>>]
         ELSE [exc |-> "none",
               msg |-> [message_type |-> message_type,
                        success |-> (data[1] = 0)]]
    [] message_type = GET_EXPOSURE_VALUE ->
         IF Len(data) # 4
         THEN [exc |-> "struct.error", msg |-> <<>>]
         ELSE [exc |-> "none",
               msg |-> [message_type |-> message_type,
                        exposure_time_us |-> FromBytesLittle(data)]]
    [] message_type = GET_RANGE ->
         IF Len(data) # 4
         THEN [exc |-> "struct.error", msg |-> <<>>]
         ELSE [exc |-> "none",
               msg |-> [message_type |-> message_type,
                        start_wavelength |-> FromBytesLittle(PySlice(data, 0, 2)),
                        end_wavelength |-> FromBytesLittle(PySlice(data, 2, 4))]]
    [] message_type = GET_DATA ->
         IF Len(data) < 19 \/ (Len(data) - 19) % 2 # 0
         THEN [exc |-> "struct.error", msg |-> <<>>]
         ELSE IF data[1] \notin ExposureStatus
         THEN [exc |-> "ValueError", msg |-> <<>>]
         ELSE [exc |-> "none",
               msg |-> [message_type |-> message_type,
                        exposure_status |-> data[1],
                        exposure_time_us |-> PySlice(data, 1, 5),
                        encoded_exponent |-> PySlice(data, 5, 7),
                        serial_number |-> PySlice(data, 7, 11),
                        ex_info |-> PySlice(data, 11, 19),
                        encoded_spectrum |-> PySlice(data, 19, Len(data))]]
    [] OTHER ->
         [exc |-> "none", msg |-> [message_type |-> message_type]]

(***************************************************************************)
(* protocol.py: parse_messages                                             *)
(***************************************************************************)
magic_ok_first_byte_only(data) == data[1] = 204

\* line 137: data.startswith(b"\xCC\x81"), for the len(data) >= 5 of line 136
magic_ok(data) == data[1] = 204 /\ data[2] = 129

checksum_ok_seven_bits(data, length) ==
  calculate_checksum(PySlice(data, 0, length - 3)) % 128
    = PyIndex(data, length - 3) % 128

\* line 145: the checksum byte at length - 3 against the bytes before it
checksum_ok(data, length) ==
  calculate_checksum(PySlice(data, 0, length - 3)) = PyIndex(data, length - 3)

\* line 148: the terminator
end_ok(data, length) == PySlice(data, length - 2, length) = <<13, 10>>

cap_reached_late(messages, max_messages) == Len(messages) > max_messages

\* line 153: the cap on the messages of one call
cap_reached(messages, max_messages) == Len(messages) >= max_messages

RECURSIVE parse_loop(_, _, _)
parse_loop(data, messages, max_messages) ==
  IF Len(data) < 5 THEN Return(data, messages)
  ELSE IF ~magic_ok(data) THEN Raise("Invalid start bytes")
  ELSE
    \* line 140: int.from_bytes(data[2:5], "little"), len(data) >= 5 here
    LET length == data[3] + 256 * data[4] + 65536 * data[5] IN
    IF Len(data) < length THEN Return(data, messages)
    ELSE IF ~checksum_ok(data, length) THEN Raise("Invalid checksum")
    ELSE IF ~end_ok(data, length) THEN Raise("Invalid end bytes")
    ELSE IF Len(data) < 6 THEN Raise("IndexError")
    ELSE IF PyIndex(data, 5) \notin MessageType THEN Raise("ValueError")
    ELSE
      LET parsed == parse_message(PyIndex(data, 5),
                                  PySlice(data, 6, 6 + length - 9))
          rest == PySlice(data, length, Len(data))
      IN IF parsed.exc # "none" THEN Raise(parsed.exc)
         ELSE IF cap_reached(Append(messages, parsed.msg), max_messages)
         THEN Return(rest, Append(messages, parsed.msg))
         ELSE parse_loop(rest, Append(messages, parsed.msg), max_messages)

parse_messages(data, max_messages) == parse_loop(data, <<>>, max_messages)

(***************************************************************************)
(* Inbound frames.  The device frames its answers like build_message does, *)
(* with the inbound magic CC 81 that parse_messages asks for.              *)
(***************************************************************************)
inbound_frame(message_type, data) ==
  LET m4 == <<204, 129>> \o ToBytesLittle(9 + Len(data), 3)
              \o <<message_type>> \o data
  IN m4 \o <<calculate_checksum(m4)>> \o <<13, 10>>

RECURSIVE inbound_stream(_)
inbound_stream(frames) ==
  IF frames = <<>> THEN <<>>
  ELSE inbound_frame(frames[1].t, frames[1].p) \o inbound_stream(Tail(frames))

(***************************************************************************)
(* Inputs of the codec specification                                       *)
(***************************************************************************)
\* GET_DATA payload: status, exposure time (us), encoded exponent, serial,
\* ex_info, then 16-bit samples
DataPayload(status, samples) ==
  <<status>> \o <<16, 39, 0, 0>> \o <<34, 144>> \o <<1, 2, 3, 4>>
    \o <<5, 6, 7, 8, 9, 10, 11, 12>> \o samples

FrameInputs ==
  { [t |-> STOP, p |-> <<>>],
    [t |-> STOP, p |-> <<13, 10>>],
    [t |-> GET_DEVICE_ID, p |-> <<65, 45, 49>>],
    [t |-> GET_DEVICE_ID, p |-> <<200>>],
    [t |-> GET_DEVICE_ID, p |-> <<94, 13, 10>>],
    [t |-> 85, p |-> <<>>],
    [t |-> SET_EXPOSURE_MODE, p |-> <<0>>],
    [t |-> SET_EXPOSURE_MODE, p |-> <<1, 0>>],
    [t |-> GET_EXPOSURE_MODE, p |-> <<1>>],
    [t |-> GET_EXPOSURE_MODE, p |-> <<>>],
    [t |-> SET_EXPOSURE_VALUE, p |-> <<1>>],
    [t |-> GET_EXPOSURE_VALUE, p |-> <<16, 39, 0, 0>>],
    [t |-> GET_RANGE, p |-> <<84, 1, 232, 3>>],
    [t |-> GET_RANGE, p |-> <<>>],
    [t |-> GET_DATA, p |-> DataPayload(OVER, <<255, 1, 0, 128>>)],
    [t |-> GET_DATA, p |-> DataPayload(3, <<>>)] }

TailInputs ==
  { [t |-> STOP, p |-> <<>>],
    [t |-> GET_RANGE, p |-> <<84, 1, 232, 3>>] }

\* the strict prefixes of the inbound frames of TailInputs (the empty one too)
Prefixes(s) == { SubSeq(s, 1, k) : k \in 0..(Len(s) - 1) }

Tails == UNION { Prefixes(inbound_frame(f.t, f.p)) : f \in TailInputs }

FrameLists == UNION { [1..n -> FrameInputs] : n \in 0..MaxFrames }

NoResult == [exc |-> "no call", data |-> <<>>, messages |-> <<>>]

(***************************************************************************)
(* torchbearer.py: the session after __init__                              *)
(***************************************************************************)
None == <<>>

Some(x) == <<x>>

NoLocals ==
  [spec_range |-> None, mode |-> None, device_id |-> None,
   last_ok |-> FALSE, guard |-> None]

NoOutcome == [op |-> "none", exc |-> "none", value |-> None]

\* main.py lines 303-304: no plot is started
AppIdle ==
  /\ running = FALSE
  /\ thread = "none"
  /\ main = "none"

\* oceanoptics.py: no instrument is attached
AutoIdle ==
  /\ hw = <<>>
  /\ props = <<>>
  /\ gain = <<>>
  /\ instrument = <<>>
  /\ ctl = <<>>
  /\ apc = "none"
  /\ returned = <<>>
  /\ acquired = 0

\* common.py: no SlidingMax and no SpectrumAggregator is built
SlidingIdle ==
  /\ sliding = <<>>
  /\ clock = 0
  /\ entered = [pairs |-> <<>>, resized |-> FALSE]
  /\ outcome = [op |-> "none", exc |-> "none", value |-> <<>>]

AggregatorIdle ==
  /\ aggregator = <<>>
  /\ instance = <<>>
  /\ given = [samples |-> <<>>, kept |-> 0]
  /\ aggregate = [op |-> "none", exc |-> "none", value |-> <<>>]

\* protocol.py: no payload was decoded
DecodeIdle ==
  /\ decoding = <<>>
  /\ earlier = <<>>

CommonIdle == SlidingIdle /\ AggregatorIdle /\ DecodeIdle

SessionFields ==
  /\ buffer = <<>>
  /\ wavelength_range = None
  /\ exposure_mode = None
  /\ device_id = None
  /\ wire = <<>>
  /\ pc = "idle"
  /\ call = "none"
  /\ locals = NoLocals
  /\ result = NoOutcome
  /\ pending = <<>>
  /\ rx = None
  /\ tx = <<>>
  /\ cb = None
  /\ faulted = FALSE

\* __init__ line 49: the port is open; its read() returns any number of the
\* bytes written so far
SessionStart ==
  SessionFields /\ port = Some("any") /\ AppIdle /\ AutoIdle /\ CommonIdle

CodecIdle ==
  /\ cframes = <<>>
  /\ ctail = <<>>
  /\ cdata = <<>>
  /\ cmark = -1
  /\ ccap = 0
  /\ cbuilt = <<>>
  /\ cout = NoResult
  /\ cop = "idle"

(***************************************************************************)
(* Codec specification: the inputs are drawn in CodecInit, the actions     *)
(* apply build_message and parse_messages to them.                         *)
(***************************************************************************)
CodecInit ==
  /\ cframes \in FrameLists
  /\ ctail \in Tails
  /\ cdata = inbound_stream(cframes) \o ctail
  /\ cmark = -1
  /\ ccap = 0
  /\ cbuilt = <<>>
  /\ cout = NoResult
  /\ cop = "input"
  /\ SessionStart

\* build_message(type, payload) for the first pair of the input
CodecBuild ==
  /\ cop = "input"
  /\ Len(cframes) = 1
  /\ ctail = <<>>
  /\ cframes[1].t \in MessageType
  /\ cbuilt' = build_message(cframes[1].t, cframes[1].p)
  /\ cop' = "built"
  /\ UNCHANGED <<cframes, ctail, cdata, cmark, ccap, cout>>
  /\ UNCHANGED <<sessionVars, appVars, autoVars, commonVars>>

\* parse_messages on the bytes build_message returned
CodecLoopback ==
  /\ cop = "built"
  /\ \E cap \in 1..MaxCap :
       /\ ccap' = cap
       /\ cout' = parse_messages(cbuilt, cap)
  /\ cdata' = cbuilt
  /\ cop' = "loopback"
  /\ UNCHANGED <<cframes, ctail, cmark, cbuilt>>
  /\ UNCHANGED <<sessionVars, appVars, autoVars, commonVars>>

\* one byte of a single complete inbound frame is replaced by another value
CodecCorrupt ==
  /\ cop = "input"
  /\ Len(cframes) = 1
  /\ ctail = <<>>
  /\ \E i \in 0..(Len(cdata) - 1), v \in 0..255 :
       /\ v # cdata[i + 1]
       /\ cdata' = [cdata EXCEPT ![i + 1] = v]
       /\ cmark' = i
  /\ cop' = "corrupted"
  /\ UNCHANGED <<cframes, ctail, ccap, cbuilt, cout>>
  /\ UNCHANGED <<sessionVars, appVars, autoVars, commonVars>>

\* parse_messages(data, max_messages) on the input buffer
CodecParse ==
  /\ cop \in {"input", "corrupted"}
  /\ \E cap \in 1..MaxCap :
       /\ ccap' = cap
       /\ cout' = parse_messages(cdata, cap)
  /\ cop' = "parsed"
  /\ UNCHANGED <<cframes, ctail, cdata, cmark, cbuilt>>
  /\ UNCHANGED <<sessionVars, appVars, autoVars, commonVars>>

CodecNext == CodecBuild \/ CodecLoopback \/ CodecCorrupt \/ CodecParse

SpecCodec == CodecInit /\ [][CodecNext]_vars

(***************************************************************************)
(* torchbearer.py: the device session.                                     *)
(*                                                                         *)
(* The worker runs the called operation.  Every worker action after the    *)
(* call starts with one port.read() of read_message's loop (line 72) and   *)
(* runs the code that follows it up to the next port.read() or to the end  *)
(* of the operation; a call action runs the code before the first          *)
(* port.read().  The device writes whole frames; port.read() returns any   *)
(* number of the bytes written so far, none included.  rx, tx and cb hold  *)
(* what the last worker action received, sent and passed to where_to.      *)
(***************************************************************************)
\* truth value of a cached range: None and the empty range are false
range_truthy(r) == r # None /\ r[1].stop > r[1].start

\* truth value of a cached string: None and "" are false
str_truthy(d) == d # None /\ d[1] # <<>>

\* device_id.split('-')[0]
RECURSIVE split_first(_)
split_first(str) ==
  IF str = <<>> \/ str[1] = 45 THEN <<>>
  ELSE <<str[1]>> \o split_first(Tail(str))

\* the answers of the device to the queries
ReplyFrames ==
  { [t |-> GET_RANGE, p |-> <<84, 1, 232, 3>>],
    [t |-> GET_EXPOSURE_MODE, p |-> <<1>>],
    [t |-> GET_DEVICE_ID, p |-> <<65, 45, 49>>] }

\* the frames of a device that streams
DeviceFrames ==
  ReplyFrames \cup
  { [t |-> STOP, p |-> <<>>],
    [t |-> GET_DATA, p |-> DataPayload(NORMAL, <<>>)],
    [t |-> GET_DATA, p |-> DataPayload(OVER, <<>>)],
    [t |-> GET_DATA, p |-> DataPayload(UNDER, <<>>)] }

\* the message_type arguments of read_message in this model
Guards == {None, Some(GET_RANGE)}

SessionInit == SessionStart /\ CodecIdle

\* the device writes one frame
Send(frames, limit) ==
  /\ Len(pending) < limit
  /\ \E f \in frames :
       /\ wire' = wire \o inbound_frame(f.t, f.p)
       /\ pending' = Append(pending, f)
  /\ UNCHANGED <<buffer, wavelength_range, exposure_mode, device_id, pc, call,
                 locals, result, rx, tx, cb>>
  /\ UNCHANGED <<port, faulted>>
  /\ UNCHANGED <<codecVars, appVars, autoVars, commonVars>>

DeviceReply == Send(ReplyFrames, MaxInFlight)

DeviceSend == Send(DeviceFrames, MaxQueued)

\* the errors of parse_messages about the frame itself (lines 138, 146, 149)
FramingErrors == {"Invalid start bytes", "Invalid checksum", "Invalid end bytes"}

\* the numbers of bytes one port.read() of line 72 can return: port.read()
\* is read(size=1), at most one byte, on a port of granularity "byte"
ReadSizes ==
  IF port = None THEN {}
  ELSE IF port = Some("byte") THEN 0..Min2(1, Len(wire))
  ELSE 0..Len(wire)

read_parse_without_buffer(k) == parse_messages(SubSeq(wire, 1, k), 1)

\* read_message line 72: parse_messages(self.buffer + self.port.read(), 1)
\* when port.read() returns the first k bytes of the wire
read_parse(k) == parse_messages(buffer \o SubSeq(wire, 1, k), 1)

\* read_message lines 79-81: the guard on the type of the message
guard_passes(message, message_type) ==
  IF message_type = None THEN TRUE
  ELSE message.message_type = message_type[1]

\* the operation ends: it returns value, or raises exc
Finish(exc, value) ==
  /\ pc' = "idle"
  /\ call' = "none"
  /\ result' = [op |-> call, exc |-> exc, value |-> value]

\* the read of this step gave a message: it leaves the buffer
Receive(k, parsed) ==
  /\ pc # "idle"
  /\ parsed.exc = "none"
  /\ parsed.messages # <<>>
  /\ buffer' = parsed.data
  /\ wire' = SubSeq(wire, k + 1, Len(wire))
  /\ pending' = Tail(pending)
  /\ rx' = parsed.messages

\* stream_data lines 176-193, from the check number `step` on: the first
\* query to make, or GET_DATA
prelude(step, loc) ==
  IF step <= 1 /\ ~range_truthy(wavelength_range)
  THEN [pc |-> "get_range", send |-> GET_RANGE, loc |-> loc]
  ELSE
    LET l1 == IF step <= 1 THEN [loc EXCEPT !.spec_range = wavelength_range]
              ELSE loc
    IN
    IF step <= 2 /\ exposure_mode = None
    THEN [pc |-> "get_exposure_mode", send |-> GET_EXPOSURE_MODE, loc |-> l1]
    ELSE
      LET l2 == IF step <= 2 THEN [l1 EXCEPT !.mode = exposure_mode] ELSE l1
      IN
      IF step <= 3 /\ ~str_truthy(device_id)
      THEN [pc |-> "get_device_id", send |-> GET_DEVICE_ID, loc |-> l2]
      ELSE
        LET l3 == IF step <= 3 THEN [l2 EXCEPT !.device_id = device_id]
                  ELSE l2
        IN [pc |-> "stream", send |-> GET_DATA,
            loc |-> [l3 EXCEPT !.last_ok = FALSE]]

\* stream_data starts, or goes on after a query
Proceed(step, loc) ==
  LET nxt == prelude(step, loc) IN
  /\ pc' = nxt.pc
  /\ tx' = <<nxt.send>>
  /\ locals' = [nxt.loc EXCEPT
                  !.guard = IF nxt.pc = "stream" THEN None ELSE Some(nxt.send)]

\* the client calls get_range(), get_exposure_mode() or get_device_id()
CallQuery ==
  /\ pc = "idle"
  /\ port # None
  /\ \E q \in { [f |-> "get_range", t |-> GET_RANGE],
                [f |-> "get_exposure_mode", t |-> GET_EXPOSURE_MODE],
                [f |-> "get_device_id", t |-> GET_DEVICE_ID] } :
       /\ call' = q.f
       /\ pc' = q.f
       /\ tx' = <<q.t>>
       /\ locals' = [NoLocals EXCEPT !.guard = Some(q.t)]
  /\ rx' = None
  /\ cb' = None
  /\ result' = NoOutcome
  /\ UNCHANGED <<buffer, wavelength_range, exposure_mode, device_id, wire,
                 pending>>
  /\ UNCHANGED <<port, faulted>>
  /\ UNCHANGED <<codecVars, appVars, autoVars, commonVars>>

\* the client calls read_message(message_type)
CallReadMessage ==
  /\ pc = "idle"
  /\ port # None
  /\ \E g \in Guards : locals' = [NoLocals EXCEPT !.guard = g]
  /\ call' = "read_message"
  /\ pc' = "read_message"
  /\ tx' = <<>>
  /\ rx' = None
  /\ cb' = None
  /\ result' = NoOutcome
  /\ UNCHANGED <<buffer, wavelength_range, exposure_mode, device_id, wire,
                 pending>>
  /\ UNCHANGED <<port, faulted>>
  /\ UNCHANGED <<codecVars, appVars, autoVars, commonVars>>

\* the client calls stream_data(where_to)
CallStreamData ==
  /\ pc = "idle"
  /\ port # None
  /\ call' = "stream_data"
  /\ Proceed(1, NoLocals)
  /\ rx' = None
  /\ cb' = None
  /\ result' = NoOutcome
  /\ UNCHANGED <<buffer, wavelength_range, exposure_mode, device_id, wire,
                 pending>>
  /\ UNCHANGED <<port, faulted>>
  /\ UNCHANGED <<codecVars, appVars, autoVars, commonVars>>

\* read_message lines 71-74: the read completes no frame and the loop goes
\* on; an exception of parse_messages leaves self.buffer as it was and ends
\* the operation
ReadMore ==
  /\ pc # "idle"
  /\ \E k \in ReadSizes : LET parsed == read_parse(k) IN
       /\ parsed.messages = <<>>
       /\ wire' = SubSeq(wire, k + 1, Len(wire))
       /\ IF parsed.exc = "none"
          THEN /\ buffer' = parsed.data
               /\ UNCHANGED <<pc, call, result>>
          ELSE /\ buffer' = buffer
               /\ Finish(parsed.exc, None)
       /\ faulted' = (faulted \/ parsed.exc \in FramingErrors)
  /\ rx' = None
  /\ tx' = <<>>
  /\ cb' = None
  /\ UNCHANGED <<wavelength_range, exposure_mode, device_id, locals, pending,
                 port>>
  /\ UNCHANGED <<codecVars, appVars, autoVars, commonVars>>

ReadUnexpectedKeepsWaiting ==
  /\ pc \in {"get_range", "get_exposure_mode", "get_device_id", "read_message"}
  /\ \E k \in ReadSizes : LET parsed == read_parse(k) IN
       /\ Receive(k, parsed)
       /\ ~guard_passes(parsed.messages[1], locals.guard)
  /\ tx' = <<>>
  /\ cb' = None
  /\ UNCHANGED <<wavelength_range, exposure_mode, device_id, locals, pc, call,
                 result>>
  /\ UNCHANGED <<port, faulted>>
  /\ UNCHANGED <<codecVars, appVars, autoVars, commonVars>>

\* read_message lines 79-81: the message is not of the type asked for
ReadUnexpected ==
  /\ pc \in {"get_range", "get_exposure_mode", "get_device_id", "read_message"}
  /\ \E k \in ReadSizes : LET parsed == read_parse(k) IN
       /\ Receive(k, parsed)
       /\ ~guard_passes(parsed.messages[1], locals.guard)
  /\ Finish("Unexpected message type", None)
  /\ tx' = <<>>
  /\ cb' = None
  /\ UNCHANGED <<wavelength_range, exposure_mode, device_id, locals>>
  /\ UNCHANGED <<port, faulted>>
  /\ UNCHANGED <<codecVars, appVars, autoVars, commonVars>>

\* read_message(message_type) called by the client returns the message
ReadMessageReturn ==
  /\ pc = "read_message"
  /\ \E k \in ReadSizes : LET parsed == read_parse(k) IN
       /\ Receive(k, parsed)
       /\ guard_passes(parsed.messages[1], locals.guard)
       /\ Finish("none", parsed.messages)
  /\ tx' = <<>>
  /\ cb' = None
  /\ UNCHANGED <<wavelength_range, exposure_mode, device_id, locals>>
  /\ UNCHANGED <<port, faulted>>
  /\ UNCHANGED <<codecVars, appVars, autoVars, commonVars>>

\* get_range lines 113-119
GetRangeReply ==
  /\ pc = "get_range"
  /\ \E k \in ReadSizes : LET parsed == read_parse(k) IN
       /\ Receive(k, parsed)
       /\ guard_passes(parsed.messages[1], locals.guard)
       /\ LET response == parsed.messages[1]
              rng == [start |-> response.start_wavelength,
                      stop |-> response.end_wavelength]
          IN /\ wavelength_range' = Some(rng)
             /\ IF call = "get_range"
                THEN /\ Finish("none", Some(rng))
                     /\ tx' = <<>>
                     /\ UNCHANGED locals
                ELSE /\ Proceed(2, [locals EXCEPT !.spec_range = Some(rng)])
                     /\ UNCHANGED <<call, result>>
  /\ cb' = None
  /\ UNCHANGED <<exposure_mode, device_id>>
  /\ UNCHANGED <<port, faulted>>
  /\ UNCHANGED <<codecVars, appVars, autoVars, commonVars>>

\* get_exposure_mode lines 138-140
GetExposureModeReply ==
  /\ pc = "get_exposure_mode"
  /\ \E k \in ReadSizes : LET parsed == read_parse(k) IN
       /\ Receive(k, parsed)
       /\ guard_passes(parsed.messages[1], locals.guard)
       /\ LET response == parsed.messages[1] IN
          /\ exposure_mode' = Some(response.exposure_mode)
          /\ IF call = "get_exposure_mode"
             THEN /\ Finish("none", Some(response.exposure_mode))
                  /\ tx' = <<>>
                  /\ UNCHANGED locals
             ELSE /\ Proceed(3, [locals EXCEPT
                                   !.mode = Some(response.exposure_mode)])
                  /\ UNCHANGED <<call, result>>
  /\ cb' = None
  /\ UNCHANGED <<wavelength_range, device_id>>
  /\ UNCHANGED <<port, faulted>>
  /\ UNCHANGED <<codecVars, appVars, autoVars, commonVars>>

\* get_device_id lines 103-105
GetDeviceIdReply ==
  /\ pc = "get_device_id"
  /\ \E k \in ReadSizes : LET parsed == read_parse(k) IN
       /\ Receive(k, parsed)
       /\ guard_passes(parsed.messages[1], locals.guard)
       /\ LET response == parsed.messages[1] IN
          /\ device_id' = Some(response.device_id)
          /\ IF call = "get_device_id"
             THEN /\ Finish("none", Some(response.device_id))
                  /\ tx' = <<>>
                  /\ UNCHANGED locals
             ELSE /\ Proceed(4, [locals EXCEPT
                                   !.device_id = Some(response.device_id)])
                  /\ UNCHANGED <<call, result>>
  /\ cb' = None
  /\ UNCHANGED <<wavelength_range, exposure_mode>>
  /\ UNCHANGED <<port, faulted>>
  /\ UNCHANGED <<codecVars, appVars, autoVars, commonVars>>

stale_stop_sends_nothing == <<>>

\* stream_data lines 202-206: what is sent when a STOP frame arrives while
\* awaiting data
stale_stop_sends == <<GET_DATA>>

\* stream_data lines 201-206: a STOP frame while awaiting data
StreamStaleStop ==
  /\ pc = "stream"
  /\ \E k \in ReadSizes : LET parsed == read_parse(k) IN
       /\ Receive(k, parsed)
       /\ parsed.messages[1].message_type = STOP
  /\ tx' = stale_stop_sends
  /\ cb' = None
  /\ UNCHANGED <<wavelength_range, exposure_mode, device_id, pc, call, locals,
                 result>>
  /\ UNCHANGED <<port, faulted>>
  /\ UNCHANGED <<codecVars, appVars, autoVars, commonVars>>

\* stream_data line 201: the test that lets a message through to where_to
is_data(response) == response.message_type = GET_DATA

\* stream_data lines 201, 207-208: a frame that is neither GET_DATA nor STOP
StreamUnexpected ==
  /\ pc = "stream"
  /\ \E k \in ReadSizes : LET parsed == read_parse(k) IN
       /\ Receive(k, parsed)
       /\ ~is_data(parsed.messages[1])
       /\ parsed.messages[1].message_type # STOP
  /\ tx' = <<>>
  /\ cb' = None
  /\ UNCHANGED <<wavelength_range, exposure_mode, device_id, pc, call, locals,
                 result>>
  /\ UNCHANGED <<port, faulted>>
  /\ UNCHANGED <<codecVars, appVars, autoVars, commonVars>>

status_ok_unless_over(response) == response.exposure_status # OVER

\* stream_data line 210
status_ok(response) == response.exposure_status = NORMAL

\* stream_data lines 212-227
Spectrum(response, loc) ==
  [status |-> response.exposure_status,
   exposure |-> loc.mode[1],
   time_us |-> response.exposure_time_us,
   wavelength_range |-> loc.spec_range[1],
   spd_raw |-> response.encoded_spectrum,
   device |-> split_first(loc.device_id[1])]

never_waits_for_ack(last_ok) == FALSE

\* stream_data lines 241-247: whether it reads on for the STOP of the device
waits_for_ack(last_ok) == last_ok

\* stream_data lines 210-250: a GET_DATA frame goes to where_to; when
\* where_to returns false, STOP is sent and the acknowledgment awaited
StreamData ==
  /\ pc = "stream"
  /\ \E k \in ReadSizes : LET parsed == read_parse(k) IN
       /\ Receive(k, parsed)
       /\ is_data(parsed.messages[1])
       /\ LET response == parsed.messages[1]
              last_ok == status_ok(response)
          IN \E cont \in BOOLEAN :
             /\ locals' = [locals EXCEPT !.last_ok = last_ok]
             /\ cb' = Some([spectrum |-> Spectrum(response, locals),
                            cont |-> cont])
             /\ IF cont
                THEN /\ tx' = <<>>
                     /\ UNCHANGED <<pc, call, result>>
                ELSE /\ tx' = <<STOP>>
                     /\ IF waits_for_ack(last_ok)
                        THEN /\ pc' = "wait_stop"
                             /\ UNCHANGED <<call, result>>
                        ELSE Finish("none", None)
  /\ UNCHANGED <<wavelength_range, exposure_mode, device_id>>
  /\ UNCHANGED <<port, faulted>>
  /\ UNCHANGED <<codecVars, appVars, autoVars, commonVars>>

WaitStopForwardsData ==
  /\ pc = "wait_stop"
  /\ \E k \in ReadSizes : LET parsed == read_parse(k) IN
       /\ Receive(k, parsed)
       /\ IF parsed.messages[1].message_type = STOP
          THEN Finish("none", None)
          ELSE UNCHANGED <<pc, call, result>>
       /\ cb' = IF is_data(parsed.messages[1])
                THEN Some([spectrum |-> Spectrum(parsed.messages[1], locals),
                           cont |-> FALSE])
                ELSE None
  /\ tx' = <<>>
  /\ UNCHANGED <<wavelength_range, exposure_mode, device_id, locals>>
  /\ UNCHANGED <<port, faulted>>
  /\ UNCHANGED <<codecVars, appVars, autoVars, commonVars>>

\* stream_data line 242: frames are read until one of type STOP
WaitStop ==
  /\ pc = "wait_stop"
  /\ \E k \in ReadSizes : LET parsed == read_parse(k) IN
       /\ Receive(k, parsed)
       /\ IF parsed.messages[1].message_type = STOP
          THEN Finish("none", None)
          ELSE UNCHANGED <<pc, call, result>>
  /\ tx' = <<>>
  /\ cb' = None
  /\ UNCHANGED <<wavelength_range, exposure_mode, device_id, locals>>
  /\ UNCHANGED <<port, faulted>>
  /\ UNCHANGED <<codecVars, appVars, autoVars, commonVars>>

\* the session under stream_data and a device that streams
Next ==
  \/ DeviceSend \/ CallStreamData \/ ReadMore \/ ReadUnexpected
  \/ GetRangeReply \/ GetExposureModeReply \/ GetDeviceIdReply
  \/ StreamStaleStop \/ StreamUnexpected \/ StreamData \/ WaitStop

Spec == SessionInit /\ [][Next]_vars

\* the session under queries and read_message
QueryNext ==
  \/ DeviceReply \/ CallQuery \/ CallReadMessage \/ ReadMore
  \/ ReadUnexpected \/ ReadMessageReturn
  \/ GetRangeReply \/ GetExposureModeReply \/ GetDeviceIdReply

SpecQuery == SessionInit /\ [][QueryNext]_vars

(***************************************************************************)
(* torchbearer.py: a line that damages frames, and teardown.               *)
(*                                                                         *)
(* The port is the one __init__ opens: port.read() of line 72 is           *)
(* read(size=1) and returns one byte, or none when the 0.1 s timeout       *)
(* passes.  pending counts the frames written that no message has left     *)
(* the buffer for.                                                          *)
(***************************************************************************)
\* where the line damages a frame: nowhere, in the magic, in the checksum,
\* or in the last byte of the terminator
Damages == {"none", "magic", "checksum", "end"}

\* the frame as it arrives: the damaged byte is the one lines 137, 145 and
\* 148 of parse_messages test
damaged(frame, d) ==
  LET n == Len(frame) IN
  IF d = "magic" THEN [frame EXCEPT ![2] = 1]
  ELSE IF d = "checksum" THEN [frame EXCEPT ![n - 2] = (frame[n - 2] + 1) % 256]
  ELSE IF d = "end" THEN [frame EXCEPT ![n] = 0]
  ELSE frame

FaultInit ==
  /\ SessionFields /\ port = Some("byte")
  /\ AppIdle /\ AutoIdle /\ CodecIdle /\ CommonIdle

\* the device writes one frame and the line damages it, or not
LineSend ==
  /\ Len(pending) < MaxInFlight
  /\ \E f \in ReplyFrames, d \in Damages :
       /\ wire' = wire \o damaged(inbound_frame(f.t, f.p), d)
       /\ pending' = Append(pending, f)
  /\ UNCHANGED <<buffer, wavelength_range, exposure_mode, device_id, pc, call,
                 locals, result, rx, tx, cb>>
  /\ UNCHANGED <<port, faulted>>
  /\ UNCHANGED <<codecVars, appVars, autoVars, commonVars>>

\* send_message lines 60-61 and read_message lines 68-69: an operation
\* called on a closed session raises at once
CallClosed ==
  /\ pc = "idle"
  /\ port = None
  /\ \E op \in {"get_range", "get_exposure_mode", "get_device_id",
                "read_message"} :
       result' = [op |-> op, exc |-> "Already closed", value |-> None]
  /\ rx' = None
  /\ tx' = <<>>
  /\ cb' = None
  /\ UNCHANGED <<buffer, wavelength_range, exposure_mode, device_id, wire, pc,
                 call, locals, pending>>
  /\ UNCHANGED <<port, faulted>>
  /\ UNCHANGED <<codecVars, appVars, autoVars, commonVars>>

\* cleanup lines 86-95, called between operations: on a closed session
\* send_message raises, on an open one port.write sends STOP or raises (the
\* device is unplugged); an exception is swallowed at line 94, before the
\* close and the resets
cleanup ==
  /\ pc = "idle"
  /\ \E written \in BOOLEAN :
       IF port = None \/ ~written
       THEN /\ tx' = <<>>
            /\ UNCHANGED <<port, buffer, wavelength_range>>
       ELSE /\ tx' = <<STOP>>
            /\ port' = None
            /\ buffer' = <<>>
            /\ wavelength_range' = None
  /\ result' = [op |-> "cleanup", exc |-> "none", value |-> None]
  /\ rx' = None
  /\ cb' = None
  /\ UNCHANGED <<exposure_mode, device_id, wire, pc, call, locals, pending,
                 faulted>>
  /\ UNCHANGED <<codecVars, appVars, autoVars, commonVars>>

\* the session under queries, read_message and cleanup on a damaging line
FaultNext ==
  \/ LineSend \/ CallQuery \/ CallReadMessage \/ CallClosed \/ ReadMore
  \/ ReadUnexpected \/ ReadMessageReturn
  \/ GetRangeReply \/ GetExposureModeReply \/ GetDeviceIdReply
  \/ cleanup

SpecFault == FaultInit /\ [][FaultNext]_vars

(***************************************************************************)
(* main.py: the plot, its worker thread and the teardown of the session.   *)
(*                                                                         *)
(* The worker thread runs _data_loop, which calls stream_data; the main    *)
(* thread runs the GUI loop of start_plot, stop(), the signal handler and  *)
(* the atexit hook.  cleanup runs on the main thread in two steps: the     *)
(* write of STOP, then the close of the port with the resets.              *)
(***************************************************************************)
\* start_plot lines 372-374: the worker thread is started
AppInit ==
  /\ SessionFields
  /\ port = Some("any")
  /\ running = TRUE
  /\ thread = "alive"
  /\ main = "gui"
  /\ AutoIdle
  /\ CodecIdle
  /\ CommonIdle

\* _data_loop lines 443-451: the worker calls stream_data on an open session
WorkerRefresh ==
  /\ thread = "alive"
  /\ running
  /\ result.exc = "none"
  /\ CallStreamData

\* _data_loop line 451 on a closed session: send_message raises at once
WorkerRefreshClosed ==
  /\ thread = "alive"
  /\ running
  /\ result.exc = "none"
  /\ pc = "idle"
  /\ port = None
  /\ result' = [op |-> "stream_data", exc |-> "Already closed", value |-> None]
  /\ rx' = None
  /\ tx' = <<>>
  /\ cb' = None
  /\ UNCHANGED <<buffer, wavelength_range, exposure_mode, device_id, wire, pc,
                 call, locals, pending, port, faulted>>
  /\ UNCHANGED <<codecVars, appVars, autoVars, commonVars>>

\* read_message line 72 after cleanup set self.port to None: port.read()
\* raises AttributeError
ReadClosed ==
  /\ pc # "idle"
  /\ port = None
  /\ Finish("AttributeError", None)
  /\ rx' = None
  /\ tx' = <<>>
  /\ cb' = None
  /\ UNCHANGED <<buffer, wavelength_range, exposure_mode, device_id, wire,
                 locals, pending, port, faulted>>
  /\ UNCHANGED <<codecVars, appVars, autoVars, commonVars>>

\* _data_loop lines 443 and 455-458: the loop ends when running is false,
\* or on an exception of stream_data while running is true
WorkerExit ==
  /\ thread = "alive"
  /\ pc = "idle"
  /\ ~running \/ result.exc # "none"
  /\ thread' = "dead"
  /\ UNCHANGED <<running, main>>
  /\ UNCHANGED <<codecVars, sessionVars, autoVars, commonVars>>

\* stop lines 816-818, on window close or at the end of start_plot
WindowClose ==
  /\ main = "gui"
  /\ running' = FALSE
  /\ main' = IF thread = "alive" THEN "join" ELSE "exit"
  /\ UNCHANGED thread
  /\ UNCHANGED <<codecVars, sessionVars, autoVars, commonVars>>

\* stop line 818: join(timeout=1.0) returns when the worker has ended, or
\* after one second
JoinReturns ==
  /\ main = "join"
  /\ main' = "exit"
  /\ UNCHANGED <<running, thread>>
  /\ UNCHANGED <<codecVars, sessionVars, autoVars, commonVars>>

\* cleanup lines 157-159 of spectrometer.py, entered from the signal handler
\* (main.py lines 968-972) or from the atexit hook (line 966):
\* send_message(STOP) writes, or raises on a closed session
CleanupBegin ==
  /\ main \in {"gui", "join", "exit"}
  /\ main' = IF port = None THEN "done" ELSE "cleanup"
  /\ UNCHANGED <<running, thread>>
  /\ UNCHANGED <<codecVars, sessionVars, autoVars, commonVars>>

\* cleanup lines 160-163 of spectrometer.py: close and the resets
CleanupEnd ==
  /\ main = "cleanup"
  /\ port' = None
  /\ buffer' = <<>>
  /\ wavelength_range' = None
  /\ main' = "done"
  /\ UNCHANGED <<exposure_mode, device_id, wire, pc, call, locals, result,
                 pending, rx, tx, cb, faulted>>
  /\ UNCHANGED <<running, thread>>
  /\ UNCHANGED <<codecVars, autoVars, commonVars>>

AppNext ==
  \/ DeviceSend \/ WorkerRefresh \/ WorkerRefreshClosed \/ WorkerExit
  \/ ReadMore \/ ReadUnexpected \/ ReadClosed
  \/ GetRangeReply \/ GetExposureModeReply \/ GetDeviceIdReply
  \/ StreamStaleStop \/ StreamUnexpected \/ StreamData \/ WaitStop
  \/ WindowClose \/ JoinReturns \/ CleanupBegin \/ CleanupEnd

SpecApp == AppInit /\ [][AppNext]_vars

(***************************************************************************)
(* oceanoptics.py: the auto-exposure controller _spd_with_auto.            *)
(*                                                                         *)
(* One action is one measurement of the run with the code around it.       *)
(* Times are whole microseconds and intensities whole counts: the square   *)
(* root and the quotient of the code's floating point are rounded down,    *)
(* and its relative comparisons are made by cross-multiplication.  A       *)
(* measurement is kept as the exposure time it was taken at, the number    *)
(* of the instrument read that produced it and its brightest active pixel. *)
(***************************************************************************)
\* self._consts.max_intensity of the simulated instrument
FullScale == 100

\* the simulated instrument: the brightest active pixel grows with the
\* integration time, linearly or with its square, and saturates at full
\* scale
peak(t) ==
  Min2(FullScale, IF gain.square THEN gain.k * t * t ELSE gain.k * t)

Abs(x) == IF x < 0 THEN -x ELSE x

\* (low * high) ** 0.5, rounded down
geo_mean(l, h) ==
  CHOOSE r \in Min2(l, h)..Max2(l, h) :
    r * r <= l * h /\ (r + 1) * (r + 1) > l * h

\* line 289: target_intensity, times 100
target_intensity_x100 == FullScale * props.auto_max_threshold

\* lines 290, 294, 301, 320 and 340: max >= overexposed_threshold
overexposed(max) == 100 * max >= 98 * FullScale

close_enough_never(max) == FALSE

\* lines 346 and 353:
\* abs(test_max - target_intensity) / target_intensity < 0.15
close_enough(max) ==
  100 * Abs(100 * max - target_intensity_x100) < 15 * target_intensity_x100

\* line 330: test_time * (target_intensity / test_max), rounded down
predicted_time(test_time, test_max) ==
  (test_time * target_intensity_x100) \div (100 * test_max)

exposure_bounds_without_swap(h, pr) ==
  LET min_time == IF pr.auto_min_exposure_time # None
                  THEN Max2(h[1], pr.auto_min_exposure_time[1]) ELSE h[1]
      max_time == IF pr.auto_max_exposure_time # None
                  THEN Min2(h[2], pr.auto_max_exposure_time[1]) ELSE h[2]
  IN [min_time |-> min_time, max_time |-> max_time]

\* lines 249-269: the soft bounds are swapped when both are given and
\* inverted, then capped at the hardware limits
exposure_bounds(h, pr) ==
  LET min_p == pr.auto_min_exposure_time
      max_p == pr.auto_max_exposure_time
      swap == min_p # None /\ max_p # None /\ min_p[1] > max_p[1]
      mn == IF swap THEN max_p ELSE min_p
      mx == IF swap THEN min_p ELSE max_p
      min_time == IF mn # None THEN Max2(h[1], mn[1]) ELSE h[1]
      max_time == IF mx # None THEN Min2(h[2], mx[1]) ELSE h[2]
  IN [min_time |-> min_time, max_time |-> max_time]

\* _set_integration_time lines 240-245: the time is programmed; a read is
\* thrown away when the time differs from the one set before
set_integration_time(ins, t) ==
  [time |-> Some(t),
   set |-> Some(t),
   programmed |-> ins.programmed \cup {t},
   reads |-> IF ins.set = None \/ ins.set # Some(t)
             THEN Append(ins.reads, [t |-> t, kind |-> "throwaway"])
             ELSE ins.reads]

\* spectrum_at lines 278-287: the instrument after the measurement, the
\* measurement and its brightest active pixel
spectrum_at(ins, t) ==
  LET set == set_integration_time(ins, t)
      reads == Append(set.reads, [t |-> set.time[1], kind |-> "spectrum"])
  IN [ins |-> [set EXCEPT !.reads = reads],
      max |-> peak(set.time[1]),
      data |-> [at |-> set.time[1], read |-> Len(reads),
                max |-> peak(set.time[1])]]

\* the hardware limits of the simulated instruments
HwLimits == { <<1, MaxTime>>, <<4, MaxTime \div 2>> }

\* the values of the properties: IntProperty.validate (properties.py lines
\* 24-32) keeps a soft bound that is set within the hardware limits;
\* exposure_time was set before the limits were known
SoftTimes(h) == {None} \cup { Some(t) : t \in {2, 8, 24, MaxTime} \cap (h[1]..h[2]) }

InitTimes == {1, 6, 20, MaxTime, 2 * MaxTime}

Gains ==
  { [k |-> 1, square |-> FALSE], [k |-> 2, square |-> FALSE],
    [k |-> 5, square |-> FALSE], [k |-> 30, square |-> FALSE],
    [k |-> 100, square |-> FALSE], [k |-> 1, square |-> TRUE] }

Thresholds == {50, 90}

NoControl ==
  [min_time |-> 0, max_time |-> 0, init_time |-> 0, low |-> 0, high |-> 0,
   best_time |-> 0, best_data |-> None, test_time |-> 0, total_meas |-> 0,
   iteration |-> 0]

\* stream_data line 370 calls _spd_with_auto(self.exposure_time) on an
\* instrument no time was set on (line 134)
AutoInit ==
  /\ hw \in HwLimits
  /\ \E mn \in SoftTimes(hw), mx \in SoftTimes(hw), it \in InitTimes,
        n \in 1..MaxIterations, th \in Thresholds :
       props = [auto_min_exposure_time |-> mn, auto_max_exposure_time |-> mx,
                auto_max_iterations |-> n, auto_max_threshold |-> th,
                exposure_time |-> it]
  /\ gain \in Gains
  /\ instrument = [time |-> None, set |-> None, programmed |-> {},
                   reads |-> <<>>]
  /\ ctl = NoControl
  /\ apc = "bounds"
  /\ returned = None
  /\ acquired = 0
  /\ SessionFields
  /\ port = Some("any")
  /\ AppIdle
  /\ CodecIdle
  /\ CommonIdle

clamp_init_below_only(init_time, b) == Min2(init_time, b.max_time)

\* line 272: the initial time is capped within the bounds
clamp_init(init_time, b) == Max2(b.min_time, Min2(init_time, b.max_time))

\* lines 249-272: the bounds and the initial time
AutoBounds ==
  /\ apc = "bounds"
  /\ LET b == exposure_bounds(hw, props) IN
       ctl' = [ctl EXCEPT !.min_time = b.min_time,
                          !.max_time = b.max_time,
                          !.init_time = clamp_init(props.exposure_time, b)]
  /\ apc' = "init"
  /\ UNCHANGED <<hw, props, gain, instrument, returned, acquired>>
  /\ UNCHANGED <<codecVars, sessionVars, appVars, commonVars>>

\* the run goes on at position pos, or returns what c recorded as best
Goes(ins, c, pos) ==
  /\ instrument' = ins
  /\ ctl' = c
  /\ apc' = pos
  /\ returned' = IF pos = "done"
                 THEN Some([time |-> c.best_time, data |-> c.best_data])
                 ELSE None
  /\ UNCHANGED <<hw, props, gain, acquired>>
  /\ UNCHANGED <<codecVars, sessionVars, appVars, commonVars>>

best_record_time_only(c, t, data) == [c EXCEPT !.best_time = t]

\* lines 297, 303, 307-308, 327 and 343: the time and the data of one
\* measurement are recorded together
best_record(c, t, data) ==
  [c EXCEPT !.best_time = t, !.best_data = Some(data)]

\* line 294: the initial measurement is accepted when it is not overexposed
init_accepted(max) == ~overexposed(max)

\* lines 293-297: the measurement at the initial time
ProbeInit ==
  /\ apc = "init"
  /\ LET m == spectrum_at(instrument, ctl.init_time)
         c == [ctl EXCEPT !.total_meas = @ + 1]
     IN IF init_accepted(m.max)
        THEN Goes(m.ins, best_record(c, ctl.init_time, m.data), "done")
        ELSE Goes(m.ins, c, "min")

min_overexposed_never(max) == FALSE

\* line 301: the measurement at the lower bound is overexposed
min_overexposed(max) == overexposed(max)

\* lines 299-309: the measurement at the lower bound
ProbeMin ==
  /\ apc = "min"
  /\ LET m == spectrum_at(instrument, ctl.min_time)
         c == best_record([ctl EXCEPT !.total_meas = @ + 1], ctl.min_time,
                          m.data)
     IN IF min_overexposed(m.max)
        THEN Goes(m.ins, c, "done")
        ELSE Goes(m.ins, [c EXCEPT !.low = ctl.min_time,
                                   !.high = ctl.init_time,
                                   !.test_time = ctl.min_time], "loop")

loop_one_more(c) ==
  IF c.iteration > props.auto_max_iterations THEN "done" ELSE "loop"

\* line 311: the for loop ends after max_iterations iterations
loop(c) ==
  IF c.iteration >= props.auto_max_iterations THEN "done" ELSE "loop"

\* lines 311-336 and 351-358: one iteration of the search up to its end, or
\* up to the measurement of the prediction
Bisect ==
  /\ apc = "loop"
  /\ LET test_time == Max2(ctl.min_time,
                           Min2(ctl.max_time, geo_mean(ctl.low, ctl.high)))
         c0 == [ctl EXCEPT !.iteration = @ + 1, !.test_time = test_time]
     IN IF 20 * Abs(test_time - ctl.best_time) < ctl.best_time
        THEN Goes(instrument, c0, "done")
        ELSE
          LET m == spectrum_at(instrument, test_time)
              c1 == [c0 EXCEPT !.total_meas = @ + 1]
          IN IF overexposed(m.max)
             THEN LET c2 == [c1 EXCEPT !.high = test_time]
                  IN Goes(m.ins, c2, loop(c2))
             ELSE
               LET c2 == best_record([c1 EXCEPT !.low = test_time], test_time,
                                     m.data)
                   predicted == Max2(test_time,
                                     Min2(ctl.high,
                                          predicted_time(test_time, m.max)))
               IN IF 10 * Abs(predicted - test_time) > test_time
                  THEN Goes(m.ins, [c2 EXCEPT !.test_time = predicted],
                            "predict")
                  ELSE IF close_enough(m.max)
                       THEN Goes(m.ins, c2, "done")
                       ELSE Goes(m.ins, c2, loop(c2))

prediction_kept_always(max) == TRUE

\* line 340: the prediction is recorded when it is not overexposed
prediction_kept(max) == ~overexposed(max)

\* lines 338-350 and 358: the measurement of the prediction
Predict ==
  /\ apc = "predict"
  /\ LET m == spectrum_at(instrument, ctl.test_time)
         c == [ctl EXCEPT !.total_meas = @ + 1]
     IN IF prediction_kept(m.max)
        THEN LET c2 == best_record(c, ctl.test_time, m.data)
             IN IF close_enough(m.max)
                THEN Goes(m.ins, c2, "done")
                ELSE Goes(m.ins, c2, loop(c2))
        ELSE LET c2 == [c EXCEPT !.high = ctl.test_time]
             IN Goes(m.ins, c2, loop(c2))

AutoNext == AutoBounds \/ ProbeInit \/ ProbeMin \/ Bisect \/ Predict

SpecAuto == AutoInit /\ [][AutoNext]_vars

(***************************************************************************)
(* Properties of the codec                                                 *)
(***************************************************************************)
\* a frame whose type is enumerated and whose payload its parser reads
ValidFrame(f) ==
  f.t \in MessageType /\ parse_message(f.t, f.p).exc = "none"

AllValid(frames) == \A i \in 1..Len(frames) : ValidFrame(frames[i])

MessagesOf(frames) ==
  [i \in 1..Len(frames) |-> parse_message(frames[i].t, frames[i].p).msg]

\* C1 as stated: the bytes build_message(type, payload) returns, fed to
\* parse_messages, give exactly one message of that type with that payload
\* and an empty remainder.
C1_BuildParseRoundTrip ==
  (cop = "loopback" /\ ValidFrame(cframes[1]))
    => cout = Return(<<>>, MessagesOf(cframes))

\* C1 amended: the round trip holds for the inbound framing (magic CC 81):
\* an inbound frame of (type, payload) parses to exactly one message of that
\* type carrying that payload, with an empty remainder; the bytes of
\* build_message (magic CC 01) are rejected with "Invalid start bytes".
C1_InboundRoundTrip ==
  /\ (cop = "parsed" /\ cmark = -1 /\ Len(cframes) = 1 /\ ctail = <<>>
        /\ ValidFrame(cframes[1]))
       => /\ cout = Return(<<>>, MessagesOf(cframes))
          /\ cout.messages[1].message_type = cframes[1].t
  /\ cop = "loopback" => cout = Raise("Invalid start bytes")

C1_Witness ==
  /\ cop = "parsed" /\ cmark = -1 /\ ctail = <<>>
  /\ cframes = <<[t |-> GET_DEVICE_ID, p |-> <<65, 45, 49>>]>>
  /\ cout.exc = "none"
  /\ cout.messages = <<[message_type |-> GET_DEVICE_ID,
                        device_id |-> <<65, 45, 49>>]>>
  /\ cout.data = <<>>

\* C2: build_message returns CC 01, the 3-byte little-endian 9 + len(payload),
\* the type code, the payload, the checksum (sum of all preceding bytes
\* modulo 256) and 0D 0A.
C2_BuildLayout ==
  cop = "built" =>
    LET m == cbuilt
        n == Len(cframes[1].p)
    IN /\ Len(m) = 9 + n
       /\ \A i \in 1..Len(m) : m[i] \in 0..255
       /\ m[1] = 204 /\ m[2] = 1
       /\ m[3] + 256 * m[4] + 65536 * m[5] = 9 + n
       /\ m[6] = cframes[1].t
       /\ SubSeq(m, 7, 6 + n) = cframes[1].p
       /\ m[7 + n] = SumBytes(SubSeq(m, 1, 6 + n)) % 256
       /\ m[8 + n] = 13 /\ m[9 + n] = 10

C2_Witness ==
  /\ cop = "built"
  /\ cframes = <<[t |-> GET_RANGE, p |-> <<>>]>>
  /\ cbuilt = <<204, 1, 9, 0, 0, 15, 229, 13, 10>>

C4_AnyByteChecksumError ==
  (cop = "parsed" /\ cmark >= 0) => cout = Raise("Invalid checksum")

\* C4 amended: a corrupted type, payload or checksum byte fails with the
\* checksum error; a corrupted magic byte fails with "Invalid start bytes", a
\* corrupted terminator byte with "Invalid end bytes"; a length byte
\* corrupted to a larger length makes decode wait (no message, buffer kept).
C4_CorruptionByOffset ==
  (cop = "parsed" /\ cmark >= 0) =>
    LET n == Len(cdata) IN
    /\ cmark \in {0, 1} => cout = Raise("Invalid start bytes")
    /\ cmark \in 5..(n - 3) => cout = Raise("Invalid checksum")
    /\ cmark \in {n - 2, n - 1} => cout = Raise("Invalid end bytes")
    /\ (cmark \in 2..4 /\ FromBytesLittle(PySlice(cdata, 2, 5)) > n)
         => cout = Return(cdata, <<>>)

C4_Witness ==
  /\ cop = "parsed" /\ cmark = 6
  /\ cframes = <<[t |-> GET_DEVICE_ID, p |-> <<65, 45, 49>>]>>
  /\ cout = Raise("Invalid checksum")

(***************************************************************************)
(* Properties of the session                                               *)
(***************************************************************************)
\* a step of the worker (the device only adds a frame)
WorkerStep == Len(pending') <= Len(pending)

\* the step takes the oldest frame in flight out of the buffer
Consumes == pending # <<>> /\ pending' = Tail(pending)

\* the step calls where_to
Calls == WorkerStep /\ cb' # None /\ Consumes

\* the type a query asks read_message for
QueryType(f) ==
  CASE f = "get_range" -> GET_RANGE
    [] f = "get_exposure_mode" -> GET_EXPOSURE_MODE
    [] f = "get_device_id" -> GET_DEVICE_ID

Queries == {"get_range", "get_exposure_mode", "get_device_id"}

\* C5: chunking does not matter.  However the bytes of the frames in flight
\* are split between buffer and wire and whatever port.read() returns, no
\* byte is lost or added, and decoding buffer and wire at once gives the
\* messages of the frames in flight in order; a read_message call takes
\* exactly one frame out, the message it parses is the first of these
\* messages, it is what the call returns (a call that asked for another
\* type raises instead), and the frames behind stay.
C5_Step ==
  /\ Consumes => rx' = SubSeq(MessagesOf(pending), 1, 1)
  /\ (pc = "read_message" /\ Consumes) =>
       /\ pc' = "idle"
       /\ result' =
            IF guard_passes(Head(MessagesOf(pending)), locals.guard)
            THEN [op |-> "read_message", exc |-> "none", value |-> rx']
            ELSE [op |-> "read_message", exc |-> "Unexpected message type",
                  value |-> None]
  /\ (pc = "read_message" /\ pc' # pc) => Consumes
  /\ WorkerStep => (Consumes \/ pending' = pending)

C5_ChunkingInvisible ==
  /\ [](/\ buffer \o wire = inbound_stream(pending)
        /\ parse_messages(buffer \o wire, Len(pending))
             = Return(<<>>, MessagesOf(pending)))
  /\ [][C5_Step]_vars

C5_Witness ==
  /\ pc = "idle"
  /\ result.op = "read_message" /\ result.exc = "none"
  /\ pending # <<>>
  /\ buffer = inbound_stream(pending)

\* C6: a query returns only a response of the type it asked for; when the
\* next complete frame is of another type the query ends with "Unexpected
\* message type", it does not go on waiting.
C6_Step ==
  (pc \in Queries /\ Consumes) =>
    IF Head(pending).t = QueryType(pc)
    THEN /\ rx'[1].message_type = QueryType(pc)
         /\ call = pc => (pc' = "idle" /\ result'.op = pc
                            /\ result'.exc = "none")
         /\ call # pc => (pc' # "idle" /\ result' = result)
    ELSE /\ pc' = "idle"
         /\ result'.op = call
         /\ result'.exc = "Unexpected message type"

C6_QueryTypeGuard ==
  /\ []((pc = "idle" /\ result.op \in Queries /\ result.exc = "none")
          => rx # None /\ rx[1].message_type = QueryType(result.op))
  /\ [][C6_Step]_vars

C6_Witness ==
  /\ pc = "idle"
  /\ result.op = "get_range"
  /\ result.exc = "Unexpected message type"
  /\ rx # None /\ rx[1].message_type = GET_EXPOSURE_MODE

\* C7: while streaming, where_to is called exactly once in the step that
\* receives a GET_DATA frame, with the spectrum of that frame, and in no
\* other step: not for a frame of another type, and not after it returned
\* false (GET_DATA frames met while waiting for the STOP are dropped).
C7_Step ==
  WorkerStep =>
    /\ cb' # None <=>
         (pc = "stream" /\ Consumes /\ Head(pending).t = GET_DATA)
    /\ cb' # None =>
         /\ cb'[1].spectrum.status = Head(pending).p[1]
         /\ cb'[1].spectrum.spd_raw = PySlice(Head(pending).p, 19,
                                              Len(Head(pending).p))
         /\ cb'[1].cont <=> pc' = "stream"

C8_Step ==
  (pc = "stream" /\ Consumes /\ Head(pending).t # GET_DATA) =>
    /\ tx' = IF Head(pending).t = STOP THEN <<GET_DATA>> ELSE <<>>
    /\ cb' = None
    /\ pc' = "stream"
    /\ UNCHANGED <<call, result>>

C9_Step ==
  /\ (Calls /\ ~cb'[1].cont) =>
       /\ tx' = <<STOP>>
       /\ pc' # "stream"
       /\ cb'[1].spectrum.status = NORMAL => pc' = "wait_stop"
  /\ (pc = "wait_stop" /\ WorkerStep) =>
       /\ tx' = <<>>
       /\ pc' # "wait_stop" =>
            /\ Consumes /\ Head(pending).t = STOP
            /\ pc' = "idle"
            /\ result' = [op |-> "stream_data", exc |-> "none",
                          value |-> None]

C9_StopHandshake == [][C9_Step]_vars

C9_Witness ==
  /\ pc = "idle"
  /\ result = [op |-> "stream_data", exc |-> "none", value |-> None]
  /\ locals.last_ok
  /\ rx # None /\ rx[1].message_type = STOP

\* C10: when where_to returns false and the status of that GET_DATA frame
\* was OVER or UNDER, stream_data sends STOP and returns in the same step,
\* with no further read; it never waits for a STOP after such a frame.
C10_Step ==
  (Calls /\ ~cb'[1].cont /\ cb'[1].spectrum.status \in {OVER, UNDER}) =>
    /\ tx' = <<STOP>>
    /\ pc' = "idle"
    /\ result' = [op |-> "stream_data", exc |-> "none", value |-> None]

C10_NoWaitAfterAbnormal ==
  /\ [](pc = "wait_stop" => locals.last_ok)
  /\ [][C10_Step]_vars

C10_Witness ==
  /\ pc = "idle"
  /\ result = [op |-> "stream_data", exc |-> "none", value |-> None]
  /\ cb # None /\ ~cb[1].cont /\ cb[1].spectrum.status = UNDER
  /\ tx = <<STOP>>


(***************************************************************************)
(* Properties of the session on a damaging line, and of teardown           *)
(***************************************************************************)
\* the worker ends an operation in this step
Ends == pc # "idle" /\ pc' = "idle"

C11_Step ==
  /\ (~faulted /\ faulted') => (Ends /\ result'.exc \in FramingErrors)
  /\ (faulted /\ port # None) =>
       /\ rx' = None
       /\ Ends => result'.exc # "none"

\* C11: a framing error raised inside read_message reaches the caller, and
\* from then on, while the session is open, every operation that ends fails
\* and no message leaves the buffer: the corrupt frame is never skipped.
C11_FramingErrorSticks == [][C11_Step]_vars


\* C12: after cleanup the cached device identifier, wavelength range and
\* exposure mode are all unset and the byte buffer is empty.
C12_CleanupClearsFacts ==
  result.op = "cleanup" =>
    /\ device_id = None
    /\ wavelength_range = None
    /\ exposure_mode = None
    /\ buffer = <<>>


\* C13: cleanup never runs while the worker thread is still inside
\* stream_data or read_message on the same session.
C13_CleanupExcludesWorker == main = "cleanup" => pc = "idle"


(***************************************************************************)
(* Properties of the auto-exposure controller                              *)
(***************************************************************************)
\* the number of measurements among the reads of the instrument
Measurements ==
  Cardinality({ i \in 1..Len(instrument.reads) :
                  instrument.reads[i].kind = "spectrum" })

\* the measurement that read number n of the instrument gave at time t
MeasuredAt(t, n) == [at |-> t, read |-> n, max |-> peak(t)]

\* C14 as stated: the time returned by one run yields a peak intensity
\* within the tolerance (15%) of target = threshold fraction x full scale.
C14_WithinTolerance ==
  apc = "done" => close_enough(peak(returned[1].time))

\* C14, amended: the time returned by one run yields a peak intensity
\* below the overexposed threshold (98% of full scale), or it is the lower
\* bound and even the lower bound is overexposed.
C14_NotOverexposed ==
  apc = "done" =>
    \/ ~overexposed(peak(returned[1].time))
    \/ /\ returned[1].time = ctl.min_time
       /\ overexposed(peak(ctl.min_time))

C14_Witness ==
  /\ apc = "done"
  /\ ctl.total_meas >= 4
  /\ ~overexposed(peak(returned[1].time))
  /\ ~close_enough(peak(returned[1].time))

Within(v, a, b) == Max2(a, Min2(v, b))

\* the soft bounds after the swap of an inverted pair
Swapped ==
  LET mn == props.auto_min_exposure_time
      mx == props.auto_max_exposure_time
  IN IF mn # None /\ mx # None /\ mn[1] > mx[1]
     THEN [min |-> mx, max |-> mn]
     ELSE [min |-> mn, max |-> mx]

\* C16: soft bounds that are both given and inverted are swapped; each is
\* then clamped into the hardware limits and the initial time into the
\* resulting [low, high]; every integration time programmed into the
\* instrument during the run lies within [low, high] and within the
\* hardware limits.
C16_BoundsAndClamping ==
  apc # "bounds" =>
    LET lo == IF Swapped.min = None THEN hw[1]
              ELSE Within(Swapped.min[1], hw[1], hw[2])
        hi == IF Swapped.max = None THEN hw[2]
              ELSE Within(Swapped.max[1], hw[1], hw[2])
    IN /\ ctl.min_time = lo
       /\ ctl.max_time = hi
       /\ ctl.init_time = Within(props.exposure_time, lo, hi)
       /\ \A t \in instrument.programmed :
            /\ lo <= t /\ t <= hi
            /\ hw[1] <= t /\ t <= hw[2]

C16_Witness ==
  /\ apc = "done"
  /\ props.auto_min_exposure_time # None
  /\ props.auto_max_exposure_time # None
  /\ props.auto_min_exposure_time[1] > props.auto_max_exposure_time[1]
  /\ props.exposure_time > hw[2]
  /\ Cardinality(instrument.programmed) >= 4

\* the initial time capped within the bounds of the run
ClampedInit == Within(props.exposure_time, ctl.min_time, ctl.max_time)

\* C17: if the measurement at the clamped initial time is below the
\* overexposed threshold, the controller returns the initial time with that
\* measurement's data after exactly one measurement, and the measurement is
\* the last read of the instrument.
C17_InitialAccepted ==
  (apc \notin {"bounds", "init"} /\ ~overexposed(peak(ClampedInit))) =>
    /\ apc = "done"
    /\ returned =
         Some([time |-> ClampedInit,
               data |-> Some(MeasuredAt(ClampedInit, Len(instrument.reads)))])
    /\ ctl.total_meas = 1
    /\ Measurements = 1
    /\ instrument.reads[Len(instrument.reads)].kind = "spectrum"

C17_Witness ==
  /\ apc = "done"
  /\ ctl.total_meas = 1
  /\ props.exposure_time # ClampedInit
  /\ ~overexposed(peak(ClampedInit))

\* C18: if the initial measurement is overexposed and the measurement at
\* the lower bound is overexposed too, the controller returns the lower
\* bound with that measurement's data after exactly two measurements.
C18_LowerBoundOverexposed ==
  (/\ apc \notin {"bounds", "init", "min"}
   /\ overexposed(peak(ctl.init_time))
   /\ overexposed(peak(ctl.min_time))) =>
    /\ apc = "done"
    /\ returned =
         Some([time |-> ctl.min_time,
               data |-> Some(MeasuredAt(ctl.min_time,
                                        Len(instrument.reads)))])
    /\ ctl.total_meas = 2
    /\ Measurements = 2

C18_Witness ==
  /\ apc = "done"
  /\ ctl.total_meas = 2
  /\ ctl.min_time < ctl.init_time
  /\ overexposed(peak(ctl.min_time))

\* the recorded best time and data are those of one measurement of the run
BestIsOneProbe ==
  /\ ctl.best_data # None
  /\ LET d == ctl.best_data[1] IN
       /\ d.at = ctl.best_time
       /\ d.read \in 1..Len(instrument.reads)
       /\ instrument.reads[d.read] = [t |-> ctl.best_time, kind |-> "spectrum"]
       /\ d.max = peak(ctl.best_time)

\* C19: in every state of the search the recorded best time and the
\* recorded best data were set by the same measurement, and the time and
\* the data returned are the recorded ones.
C19_BestTimeAndDataTogether ==
  /\ (ctl.best_time # 0 \/ ctl.best_data # None) => BestIsOneProbe
  /\ apc = "done" =>
       /\ BestIsOneProbe
       /\ returned = Some([time |-> ctl.best_time, data |-> ctl.best_data])

C19_Witness ==
  /\ apc = "done"
  /\ ctl.best_data[1].read < Len(instrument.reads) - 1
  /\ ctl.best_time # ctl.min_time


(***************************************************************************)
(* common.py: SlidingMax.  Time is counted in ticks of half a second, so   *)
(* that a window of half a second is a whole number of ticks; time.time()  *)
(* never goes back.  An entry of the deque is <<timestamp, value>>.        *)
(***************************************************************************)
\* one second, in ticks of the clock read at lines 56 and 60
Second == 2

\* the latest time.time() of a run, and the most add calls of a run
MaxClock == 5

MaxEntered == 3

\* the ticks that pass between two readings of time.time()
Steps == {0, 1, 2}

\* the window sizes a caller assigns: 0 s, 0.5 s, 1 s and 2 s
WindowSeconds == {0, 1, Second, 2 * Second}

\* the values a caller adds
Values == {1, 2, 3}

remove_expired_entries_never(max_deque, window, current_time) == max_deque

\* lines 73-81: entries are dropped from the left while their timestamp is
\* at or before current_time - window_size
RECURSIVE remove_expired_entries(_, _, _)
remove_expired_entries(max_deque, window, current_time) ==
  IF max_deque # <<>> /\ max_deque[1][1] <= current_time - window
    THEN remove_expired_entries(Tail(max_deque), window, current_time)
    ELSE max_deque

pop_never(max_deque, value) == max_deque

\* lines 66-67: entries are dropped from the right while their value is at
\* most the new one
RECURSIVE pop_smaller(_, _)
pop_smaller(max_deque, value) ==
  IF max_deque # <<>> /\ max_deque[Len(max_deque)][2] <= value
    THEN pop_smaller(SubSeq(max_deque, 1, Len(max_deque) - 1), value)
    ELSE max_deque

window_rejected_when_negative(new_size) == new_size < 0

\* line 53: the setter raises ValueError for a size that is not positive
window_rejected(new_size) == new_size <= 0

set_window_size_lazily(max_deque, new_size, current_time) ==
  [max_deque |-> max_deque, window_size |-> new_size]

\* lines 55-56: the size is stored and the expiry is run at once
set_window_size(max_deque, new_size, current_time) ==
  [max_deque |-> remove_expired_entries(max_deque, new_size, current_time),
   window_size |-> new_size]

\* lines 41-43: SlidingMax(window_size); the setter runs on an empty deque,
\* and a size it rejects leaves no object.  A run deals with one class,
\* SlidingMax or SpectrumAggregator.
SlidingNew ==
  /\ sliding = None
  /\ aggregate.op = "none"
  /\ \E new_size \in WindowSeconds, step \in Steps :
       /\ clock + step <= MaxClock
       /\ IF window_rejected(new_size)
            THEN /\ sliding' = None
                 /\ outcome' = [op |-> "new", exc |-> "ValueError",
                                value |-> Some(new_size)]
                 /\ UNCHANGED <<clock, entered>>
            ELSE /\ clock' = clock + step
                 /\ sliding' = Some(set_window_size(<<>>, new_size, clock'))
                 /\ outcome' = [op |-> "new", exc |-> "none",
                                value |-> Some(new_size)]
                 /\ entered' = [pairs |-> <<>>, resized |-> FALSE]
  /\ UNCHANGED <<codecVars, sessionVars, appVars, autoVars, aggVars,
               decodeVars>>

\* lines 50-56: sm.window_size = new_size
SlidingResize ==
  /\ sliding # None
  /\ \E new_size \in WindowSeconds, step \in Steps :
       /\ clock + step <= MaxClock
       /\ IF window_rejected(new_size)
            THEN /\ outcome' = [op |-> "resize", exc |-> "ValueError",
                                value |-> Some(new_size)]
                 /\ UNCHANGED <<sliding, clock, entered>>
            ELSE /\ clock' = clock + step
                 /\ sliding' =
                      Some(set_window_size(sliding[1].max_deque, new_size,
                                           clock'))
                 /\ outcome' = [op |-> "resize", exc |-> "none",
                                value |-> Some(new_size)]
                 /\ entered' =
                      [entered EXCEPT
                         !.resized = (@ \/ new_size # sliding[1].window_size)]
  /\ UNCHANGED <<codecVars, sessionVars, appVars, autoVars, aggVars,
               decodeVars>>

\* lines 58-71: sm.add(value)
SlidingAdd ==
  /\ sliding # None
  /\ Len(entered.pairs) < MaxEntered
  /\ \E value \in Values, step \in Steps :
       /\ clock + step <= MaxClock
       /\ clock' = clock + step
       /\ LET live == remove_expired_entries(sliding[1].max_deque,
                                             sliding[1].window_size, clock')
              max_deque == Append(pop_smaller(live, value),
                                  <<clock', value>>)
          IN  /\ sliding' = Some([sliding[1] EXCEPT !.max_deque = max_deque])
              /\ outcome' = [op |-> "add", exc |-> "none",
                             value |-> Some(max_deque[1][2])]
       /\ entered' = [entered EXCEPT !.pairs = Append(@, <<clock', value>>)]
  /\ UNCHANGED <<codecVars, sessionVars, appVars, autoVars, aggVars,
               decodeVars>>

SlidingInit ==
  /\ SlidingIdle
  /\ AggregatorIdle
  /\ DecodeIdle
  /\ SessionFields
  /\ port = Some("any")
  /\ AppIdle
  /\ AutoIdle
  /\ CodecIdle

SlidingNext == SlidingNew \/ SlidingResize \/ SlidingAdd

SpecSliding == SlidingInit /\ [][SlidingNext]_vars


(***************************************************************************)
(* Properties of SlidingMax                                                *)
(***************************************************************************)
Largest(S) == CHOOSE x \in S : \A y \in S : y <= x

\* the values added within the last window seconds, the last one included
ValuesWithin(window) ==
  {entered.pairs[i][2] :
     i \in {j \in 1..Len(entered.pairs) :
              entered.pairs[j][1] > clock - window}}

\* the values added before the last one
Earlier == {i \in 1..Len(entered.pairs) - 1 : TRUE}

\* C21: with a window W that was not resized, and timestamps that never
\* decrease, add returns the largest of the values added within the last W
\* seconds, the value just added included; when every earlier entry has
\* aged out it returns the value just added.
C21_AddReturnsWindowMax ==
  (outcome.op = "add" /\ ~entered.resized) =>
    LET W == sliding[1].window_size
        last == entered.pairs[Len(entered.pairs)]
    IN  /\ outcome.value = Some(Largest(ValuesWithin(W)))
        /\ (\A i \in Earlier : entered.pairs[i][1] <= clock - W)
             => outcome.value = Some(last[2])

\* an add that returns an older value still in the window, larger than the
\* one added, after a still larger value has aged out
C21_Witness ==
  /\ outcome.op = "add"
  /\ ~entered.resized
  /\ \E i \in Earlier, j \in Earlier :
       /\ entered.pairs[i][1] <= clock - sliding[1].window_size
       /\ entered.pairs[i][2] > outcome.value[1]
       /\ entered.pairs[j][1] > clock - sliding[1].window_size
       /\ entered.pairs[j][2] = outcome.value[1]
       /\ entered.pairs[Len(entered.pairs)][2] < outcome.value[1]


\* the entries of a deque that are younger than the window at time t
Young(max_deque, window, t) ==
  SelectSeq(max_deque, LAMBDA e : e[1] > t - window)

Entries(max_deque) == {max_deque[i] : i \in 1..Len(max_deque)}

\* C22: an accepted assignment window_size = W' at time t leaves exactly
\* the entries younger than W'; an add keeps only entries younger than the
\* window assigned last, drops none of them that is larger than the new
\* value, and no step brings a removed entry back.
C22_Step ==
  /\ (outcome'.op = "resize" /\ outcome'.exc = "none") =>
       /\ sliding'[1].window_size = outcome'.value[1]
       /\ sliding'[1].max_deque =
            Young(sliding[1].max_deque, sliding'[1].window_size, clock')
  /\ outcome'.op = "add" =>
       LET new == entered'.pairs[Len(entered'.pairs)]
           young == Young(sliding[1].max_deque, sliding[1].window_size,
                          clock')
       IN  /\ Entries(sliding'[1].max_deque) \subseteq
                Entries(young) \cup {new}
           /\ \A e \in Entries(young) :
                e[2] > new[2] => e \in Entries(sliding'[1].max_deque)
           /\ sliding'[1].window_size = sliding[1].window_size

C22_ResizeExpiresAtOnce == [][C22_Step]_vars

\* after an accepted assignment the deque holds a survivor, and a larger
\* value added before it is older than the new window and gone
C22_Witness ==
  /\ outcome.op = "resize"
  /\ outcome.exc = "none"
  /\ entered.resized
  /\ sliding[1].max_deque # <<>>
  /\ \E i \in 1..Len(entered.pairs) :
       /\ entered.pairs[i][1] <= clock - sliding[1].window_size
       /\ entered.pairs[i][2] > sliding[1].max_deque[1][2]


(***************************************************************************)
(* common.py: SpectrumAggregator.                                          *)
(*                                                                         *)
(* A list of floats is the quotient of a sequence of whole numbers by a    *)
(* whole number, element by element: [sum |-> s, of |-> n] is the list     *)
(* s[i] / n.  A dict is its keys and the list of its values, in insertion  *)
(* order.  A numpy array of a buffer is its numbers together with whether  *)
(* it shares the memory of the container it was made from.  A units label  *)
(* is its text and the window notes appended to it; the empty text stands  *)
(* for None and for "".                                                    *)
(***************************************************************************)
\* the most add calls between two clears
MaxGiven == 3

Fields == {"spd", "spd_raw"}

Funcs == {"avg", "max", "min"}

\* the window sizes a caller assigns
WindowSizes == {0, 1, 2, 3}

Exact(numbers) == [sum |-> numbers, of |-> 1]

\* the records a caller passes to add
Inputs ==
  {[spd |-> [keys |-> <<400, 401>>, values |-> Exact(<<1, 3>>)],
    spd_raw |-> Exact(<<3, 1>>),
    y_axis |-> [text |-> "counts", notes |-> <<>>]],
   [spd |-> [keys |-> <<400, 401>>, values |-> Exact(<<2, 2>>)],
    spd_raw |-> Exact(<<1, 1>>),
    y_axis |-> [text |-> "", notes |-> <<>>]],
   [spd |-> [keys |-> <<400, 401>>, values |-> Exact(<<1, 0>>)],
    spd_raw |-> Exact(<<2, 3>>),
    y_axis |-> [text |-> "W", notes |-> <<>>]]}

\* the number a caller writes into a record it passed before
Overwritten == 9

\* lines 151-155: getattr(instance, field_name), a dict taken by its values
attribute(record, field_name) ==
  IF field_name = "spd" THEN record.spd.values ELSE record.spd_raw

np_array_view(value) == [shared |-> TRUE, data |-> value.sum]

\* lines 153, 155: np.array(...) copies the numbers of a list
np_array(value) == [shared |-> FALSE, data |-> value.sum]

\* line 159: np.zeros_like
zeros_like(array) == [i \in 1..Len(array) |-> 0]

plus(a, b) == [i \in 1..Len(a) |-> a[i] + b[i]]

minus(a, b) == [i \in 1..Len(a) |-> a[i] - b[i]]

\* lines 145-146: np.sum(np.stack(list(buffer)), axis=0), buffer not empty
RECURSIVE np_sum(_)
np_sum(buf) ==
  IF Len(buf) = 1 THEN buf[1].data
  ELSE plus(buf[1].data, np_sum(Tail(buf)))

rebuild_running_sums_never(op, buffers, running_sums) == running_sums

\* lines 137-146: _rebuild_running_sums
rebuild_running_sums(op, buffers, running_sums) ==
  IF op # "avg" THEN running_sums
  ELSE [f \in Fields |->
          IF Len(buffers[f]) > 0 THEN Some(np_sum(buffers[f])) ELSE None]

trim_nothing(buf, value) == buf

\* lines 109-110: the oldest arrays are dropped while there are more than
\* value
RECURSIVE trim(_, _)
trim(buf, value) ==
  IF Len(buf) > value THEN trim(Tail(buf), value) ELSE buf

size_rejected_when_negative(value) == value < 0

\* line 105: the setter raises ValueError for a size that is not positive
size_rejected(value) == value <= 0

evict_sum_kept(sums, old_array) == sums

\* line 163: the evicted array leaves the running sum
evict_sum(sums, old_array) == minus(sums, old_array)

add_avg_never_evicting(buf, sums, window_size, new_array) ==
  LET present == IF sums = None THEN zeros_like(new_array.data) ELSE sums[1]
  IN  [buf |-> Append(buf, new_array),
       sums |-> Some(plus(present, new_array.data))]

\* lines 157-166: one field of add, func avg
add_avg(buf, sums, window_size, new_array) ==
  LET present == IF sums = None THEN zeros_like(new_array.data) ELSE sums[1]
      full == Len(buf) >= window_size
      left == IF full THEN evict_sum(present, buf[1].data) ELSE present
      rest == IF full THEN Tail(buf) ELSE buf
  IN  [buf |-> Append(rest, new_array),
       sums |-> Some(plus(left, new_array.data))]

push_dropping_equal(dq, val) ==
  LET keep == SelectSeq(dq, LAMBDA x : x > val) IN Append(keep, val)

\* lines 174-176 and 189-191: values below val are dropped from the right
\* of the deque of one position, then val is appended; the deque never
\* increases from left to right
push(dq, val) ==
  LET keep == SelectSeq(dq, LAMBDA x : x >= val) IN Append(keep, val)

\* lines 173-176, 188-191: one array pushed into the deques, by position
push_array(max_deques, array) ==
  [i \in 1..Len(max_deques) |-> push(max_deques[i], array[i])]

\* lines 170-176: the deques rebuilt from the buffer, oldest array first
RECURSIVE deques_of(_, _)
deques_of(buf, max_deques) ==
  IF buf = <<>> THEN max_deques
  ELSE deques_of(Tail(buf), push_array(max_deques, buf[1].data))

\* lines 181-183: the evicted array leaves the front of the deques it heads
evict_max(max_deques, oldest_array) ==
  [i \in 1..Len(max_deques) |->
     IF max_deques[i] # <<>> /\ max_deques[i][1] = oldest_array[i]
       THEN Tail(max_deques[i]) ELSE max_deques[i]]

\* lines 168-191: one field of add, func max
add_max(buf, deques, window_size, new_array) ==
  LET present ==
        IF deques = None
          THEN deques_of(buf, [i \in 1..Len(new_array.data) |-> <<>>])
          ELSE deques[1]
      full == Len(buf) >= window_size
      left == IF full THEN evict_max(present, buf[1].data) ELSE present
      rest == IF full THEN Tail(buf) ELSE buf
  IN  [buf |-> Append(rest, new_array),
       deques |-> Some(push_array(left, new_array.data))]

\* lines 195-209: _agg_op; the deques are never empty after an add
agg_op(a, field_name) ==
  LET buf_len == Len(a.buffers[field_name])
  IN  IF buf_len = 0 THEN None
      ELSE IF a.op = "avg"
        THEN Some([sum |-> a.running_sums[field_name][1], of |-> buf_len])
      ELSE IF a.max_deques[field_name] = None THEN None
      ELSE Some(Exact([i \in 1..Len(a.max_deques[field_name][1]) |->
                         a.max_deques[field_name][1][i][1]]))

\* lines 211-230: _compute_aggregate writes the aggregate into template
compute_aggregate(a, template) ==
  LET text == IF template.y_axis.text \in {"", "counts"}
                THEN "Counts" ELSE template.y_axis.text
      spd_raw_agg == agg_op(a, "spd_raw")
      spd_agg == agg_op(a, "spd")
      buf_len == Len(a.buffers["spd"])
      note == [func |-> a.op,
               filled |-> IF buf_len < a.window_size
                            THEN Some(buf_len) ELSE None,
               win |-> a.window_size]
  IN  IF a.window_size > 1
        THEN [spd |-> IF spd_agg # None
                        THEN [keys |-> template.spd.keys,
                              values |-> spd_agg[1]]
                        ELSE template.spd,
              spd_raw |-> IF spd_raw_agg # None
                            THEN spd_raw_agg[1] ELSE template.spd_raw,
              y_axis |-> [text |-> text,
                          notes |-> Append(template.y_axis.notes, note)]]
        ELSE [template EXCEPT !.y_axis.text = text]

\* lines 148-191: the loop of add over the fields
add_fields(a, record) ==
  LET new(f) == np_array(attribute(record, f))
      avg(f) == add_avg(a.buffers[f], a.running_sums[f], a.window_size,
                        new(f))
      max(f) == add_max(a.buffers[f], a.max_deques[f], a.window_size,
                        new(f))
  IN  IF a.op = "avg"
        THEN [a EXCEPT !.buffers = [f \in Fields |-> avg(f).buf],
                       !.running_sums = [f \in Fields |-> avg(f).sums]]
        ELSE [a EXCEPT !.buffers = [f \in Fields |-> max(f).buf],
                       !.max_deques = [f \in Fields |-> max(f).deques]]

\* lines 107-112: the window_size setter past its check
set_size(a, value) ==
  LET buffers == [f \in Fields |-> trim(a.buffers[f], value)]
  IN  [a EXCEPT !.window_size = value,
                !.buffers = buffers,
                !.running_sums =
                   rebuild_running_sums(a.op, buffers, a.running_sums),
                !.max_deques = [f \in Fields |-> None]]

\* lines 124-128: the func setter past its check
set_func(a, value) ==
  IF value = "avg"
    THEN [a EXCEPT !.op = value,
                   !.running_sums =
                      rebuild_running_sums(value, a.buffers, a.running_sums)]
    ELSE [a EXCEPT !.op = value,
                   !.max_deques = [f \in Fields |-> None]]

Done(op) == [op |-> op, exc |-> "none", value |-> None]

Failed(op) == [op |-> op, exc |-> "ValueError", value |-> None]

\* lines 87-95: SpectrumAggregator(window_size, func); a value a setter
\* rejects leaves no object.  A run deals with one class, SlidingMax or
\* SpectrumAggregator.
AggregatorNew ==
  /\ aggregator = None
  /\ outcome.op = "none"
  /\ \E window_size \in WindowSizes, func \in Funcs :
       IF func \notin {"avg", "max"} \/ size_rejected(window_size)
         THEN /\ aggregate' = Failed("new")
              /\ UNCHANGED <<aggregator, given>>
         ELSE /\ aggregator' =
                   Some(set_size([buffers |-> [f \in Fields |-> <<>>],
                                  running_sums |-> [f \in Fields |-> None],
                                  max_deques |-> [f \in Fields |-> None],
                                  op |-> func,
                                  window_size |-> window_size],
                                 window_size))
              /\ aggregate' = Done("new")
              /\ given' = [samples |-> <<>>, kept |-> 0]
  /\ UNCHANGED instance
  /\ UNCHANGED <<codecVars, sessionVars, appVars, autoVars, slidingVars,
               decodeVars>>

\* lines 102-112: agg.window_size = value
AggregatorResize ==
  /\ aggregator # None
  /\ \E value \in WindowSizes :
       IF size_rejected(value)
         THEN /\ aggregate' = Failed("set")
              /\ UNCHANGED <<aggregator, given>>
         ELSE /\ aggregator' = Some(set_size(aggregator[1], value))
              /\ aggregate' = Done("set")
              /\ given' = [given EXCEPT !.kept = Min2(@, value)]
  /\ UNCHANGED instance
  /\ UNCHANGED <<codecVars, sessionVars, appVars, autoVars, slidingVars,
               decodeVars>>

\* lines 119-128: agg.func = value
AggregatorFunc ==
  /\ aggregator # None
  /\ \E value \in Funcs :
       IF value \notin {"avg", "max"}
         THEN /\ aggregate' = Failed("set")
              /\ UNCHANGED aggregator
         ELSE /\ aggregator' = Some(set_func(aggregator[1], value))
              /\ aggregate' = Done("func")
  /\ UNCHANGED <<instance, given>>
  /\ UNCHANGED <<codecVars, sessionVars, appVars, autoVars, slidingVars,
               decodeVars>>

\* lines 130-135: agg.clear()
AggregatorClear ==
  /\ aggregator # None
  /\ aggregator' =
       Some([aggregator[1] EXCEPT
               !.buffers = [f \in Fields |-> <<>>],
               !.running_sums = [f \in Fields |-> None],
               !.max_deques = [f \in Fields |-> None]])
  /\ aggregate' = Done("clear")
  /\ given' = [samples |-> <<>>, kept |-> 0]
  /\ UNCHANGED instance
  /\ UNCHANGED <<codecVars, sessionVars, appVars, autoVars, slidingVars,
               decodeVars>>

\* lines 148-193: agg.add(instance) with a record the caller has just made.
\* The record returned is the record passed; its spd and spd_raw are new
\* containers when the window is larger than one.
AggregatorAdd ==
  /\ aggregator # None
  /\ Len(given.samples) < MaxGiven
  /\ \E record \in Inputs :
       LET a == add_fields(aggregator[1], record)
           template == compute_aggregate(a, record)
       IN  /\ aggregator' = Some(a)
           /\ instance' = Some([record |-> template,
                                own |-> a.window_size <= 1])
           /\ aggregate' = [op |-> "add", exc |-> "none",
                            value |-> Some([same |-> TRUE,
                                            record |-> template,
                                            passed |-> record,
                                            left |-> template,
                                            follows |-> aggregate.op])]
           /\ given' =
                [samples |-> Append(given.samples,
                                    [f \in Fields |-> attribute(record, f)]),
                 kept |-> Min2(given.kept + 1, a.window_size)]
  /\ UNCHANGED <<codecVars, sessionVars, appVars, autoVars, slidingVars,
               decodeVars>>

\* the write of one number through a container: an array that shares its
\* memory shows the number
written(buf, position, own) ==
  [i \in 1..Len(buf) |->
     IF own /\ i = Len(buf) /\ buf[i].shared
       THEN [buf[i] EXCEPT !.data[position] = Overwritten]
       ELSE buf[i]]

\* tests/test_spectrum_aggregator.py lines 148-149: the caller writes a
\* number into the spd and into the spd_raw of the record it passed to add
\* last: data.spd[1] = ..., data.spd_raw[0] = ...
AggregatorModify ==
  /\ aggregator # None
  /\ instance # None
  /\ instance[1].record.spd.values.sum[2] # Overwritten
  /\ instance' =
       Some([instance[1] EXCEPT
               !.record.spd.values.sum[2] = Overwritten,
               !.record.spd_raw.sum[1] = Overwritten])
  /\ aggregator' =
       Some([aggregator[1] EXCEPT
               !.buffers =
                  [spd |-> written(@["spd"], 2, instance[1].own),
                   spd_raw |-> written(@["spd_raw"], 1, instance[1].own)]])
  /\ UNCHANGED <<given, aggregate>>
  /\ UNCHANGED <<codecVars, sessionVars, appVars, autoVars, slidingVars,
               decodeVars>>

AggregatorInit ==
  /\ SlidingIdle
  /\ AggregatorIdle
  /\ DecodeIdle
  /\ SessionFields
  /\ port = Some("any")
  /\ AppIdle
  /\ AutoIdle
  /\ CodecIdle

AggregatorNext ==
  \/ AggregatorNew
  \/ AggregatorResize
  \/ AggregatorFunc
  \/ AggregatorClear
  \/ AggregatorAdd
  \/ AggregatorModify

SpecAggregator == AggregatorInit /\ [][AggregatorNext]_vars


(***************************************************************************)
(* The window sizes of SlidingMax and SpectrumAggregator together          *)
(***************************************************************************)
WindowsNext ==
  \/ SlidingNew
  \/ SlidingResize
  \/ SlidingAdd
  \/ AggregatorNew
  \/ AggregatorResize
  \/ AggregatorAdd

SpecWindows == SlidingInit /\ [][WindowsNext]_vars

\* C23 as stated: the window of a SlidingMax is never below one second and
\* the window of a SpectrumAggregator never below one sample.
C23_WindowAtLeastOne ==
  /\ sliding # None => sliding[1].window_size >= Second
  /\ aggregator # None => aggregator[1].window_size >= 1

\* C23, amended: window sizes are always positive (for the aggregator, whose
\* window is a number of samples, at least 1); a size that is not positive,
\* given at construction or later, is rejected with an error and no other
\* size is; a rejected assignment leaves the window size and the buffered
\* samples as they were.
C23_Step ==
  /\ sliding' # None => sliding'[1].window_size > 0
  /\ aggregator' # None => aggregator'[1].window_size >= 1
  /\ outcome'.exc = "ValueError" =>
       /\ outcome'.value[1] <= 0
       /\ UNCHANGED <<sliding, entered, clock>>
  /\ (outcome' # outcome /\ outcome'.op \in {"new", "resize"}
        /\ outcome'.exc = "none") =>
       /\ outcome'.value[1] > 0
       /\ sliding'[1].window_size = outcome'.value[1]
  /\ aggregate'.exc = "ValueError" => UNCHANGED <<aggregator, given>>

C23_WindowsArePositive == [][C23_Step]_vars

\* a rejected assignment on a SlidingMax that holds entries and whose window
\* is shorter than one second
C23_Witness ==
  /\ outcome.op = "resize"
  /\ outcome.exc = "ValueError"
  /\ sliding # None
  /\ sliding[1].max_deque # <<>>
  /\ sliding[1].window_size < Second


(***************************************************************************)
(* Properties of SpectrumAggregator                                        *)
(***************************************************************************)
\* the last m samples passed to add, as they were when passed
LastGiven(m) ==
  SubSeq(given.samples, Len(given.samples) - m + 1, Len(given.samples))

RECURSIVE SumOf(_, _)
SumOf(samples, f) ==
  IF Len(samples) = 1 THEN samples[1][f].sum
  ELSE plus(samples[1][f].sum, SumOf(Tail(samples), f))

\* two lists of floats hold the same numbers
SameList(a, b) ==
  /\ Len(a.sum) = Len(b.sum)
  /\ \A i \in 1..Len(a.sum) : a.sum[i] * b.of = b.sum[i] * a.of

MeanOf(samples, f) == [sum |-> SumOf(samples, f), of |-> Len(samples)]

\* the record the last add returned holds, in both fields, list(f) for the
\* last m samples
Returned(m, list(_, _)) ==
  /\ SameList(aggregate.value[1].record.spd.values,
              list(LastGiven(m), "spd"))
  /\ SameList(aggregate.value[1].record.spd_raw,
              list(LastGiven(m), "spd_raw"))

AddedIn(func) ==
  /\ aggregate.op = "add"
  /\ aggregator[1].op = func
  /\ aggregator[1].window_size > 1

\* C24 as stated: in avg mode with window N > 1, after k additions since
\* the last clear, add returns the element-wise mean of the last min(k, N)
\* added arrays.
C24_MeanOfLastMinKN ==
  AddedIn("avg") =>
    Returned(Min2(Len(given.samples), aggregator[1].window_size), MeanOf)

\* C24, amended: in avg mode with window N > 1 add returns, for spd and for
\* spd_raw, the element-wise mean of the added arrays the window holds:
\* the last min(k, N) of them, or fewer when a resize to a smaller window
\* has dropped older ones since the last clear.
C24_MeanOfWindow == AddedIn("avg") => Returned(given.kept, MeanOf)

\* an add in avg mode that averages two arrays where min(k, N) is three
C24_Witness ==
  /\ AddedIn("avg")
  /\ given.kept = 2
  /\ Min2(Len(given.samples), aggregator[1].window_size) = 3


\* the position-wise largest numbers of some samples
MaxOf(samples, f) ==
  Exact([i \in 1..Len(samples[1][f].sum) |->
           Largest({samples[j][f].sum[i] : j \in 1..Len(samples)})])

\* no array was dropped from the window before min(k, N) later ones came
WindowHeld ==
  given.kept = Min2(Len(given.samples), aggregator[1].window_size)

\* C25: in max mode with a window N > 1 that held since the last clear, add
\* returns, position by position, the largest number over the last
\* min(k, N) added arrays, also when arrays hold equal numbers at a
\* position and when the oldest array is evicted.
C25_MaxOfLastMinKN ==
  (AddedIn("max") /\ WindowHeld) =>
    Returned(Min2(Len(given.samples), aggregator[1].window_size), MaxOf)

\* an add in max mode that evicts the oldest array, which held at some
\* position the same number as the next one, larger than the number added
C25_Witness ==
  /\ AddedIn("max")
  /\ WindowHeld
  /\ aggregator[1].window_size = 2
  /\ Len(given.samples) = 3
  /\ \E f \in Fields, i \in 1..2 :
       /\ given.samples[1][f].sum[i] = given.samples[2][f].sum[i]
       /\ given.samples[3][f].sum[i] < given.samples[2][f].sum[i]


\* the arrays of the buffers as samples, oldest first
Buffered(a) ==
  [i \in 1..Len(a.buffers["spd"]) |->
     [f \in Fields |-> Exact(a.buffers[f][i].data)]]

Newest(samples, m) == SubSeq(samples, Len(samples) - m + 1, Len(samples))

\* C26: a switch of func leaves the buffered samples and the window size as
\* they were, and the first add after it returns, for a window N > 1, the
\* aggregate under the new function over the samples buffered before the
\* switch and the new one, the newest N of them at most.
C26_Step ==
  /\ aggregate'.op = "func" =>
       /\ aggregator'[1].buffers = aggregator[1].buffers
       /\ aggregator'[1].window_size = aggregator[1].window_size
  /\ (aggregate.op = "func" /\ aggregate'.op = "add"
        /\ aggregator[1].window_size > 1) =>
       LET all == Append(Buffered(aggregator[1]),
                         given'.samples[Len(given'.samples)])
           window == Newest(all, Min2(Len(all), aggregator[1].window_size))
           record == aggregate'.value[1].record
       IN  \A f \in Fields :
             SameList(attribute(record, f),
                      IF aggregator[1].op = "avg"
                        THEN MeanOf(window, f) ELSE MaxOf(window, f))

C26_SwitchKeepsSamples == [][C26_Step]_vars

\* the first add after a switch from avg to max, over two samples buffered
\* before the switch and the new one
C26_Witness ==
  /\ AddedIn("max")
  /\ aggregate.value[1].follows = "func"
  /\ aggregator[1].running_sums["spd"] # None
  /\ Len(aggregator[1].buffers["spd"]) = 3


\* C27: a resize of the window from N to M < N leaves at once the newest
\* arrays of the buffers, M at most; after every later add the buffers hold
\* at most as many arrays as the window, the newest ones passed, and for a
\* window above one the aggregate returned is computed from them alone.
C27_Step ==
  /\ (aggregator # None /\ aggregator' # None
        /\ aggregator'[1].window_size < aggregator[1].window_size) =>
       \A f \in Fields :
         LET buf == aggregator[1].buffers[f]
         IN  aggregator'[1].buffers[f] =
               Newest(buf, Min2(Len(buf), aggregator'[1].window_size))
  /\ (aggregate'.op = "add" /\ given' # given) =>
       LET a == aggregator'[1]
           m == Len(a.buffers["spd"])
           window == Newest(given'.samples, m)
           record == aggregate'.value[1].record
       IN  /\ m <= a.window_size
           /\ Buffered(a) = window
           /\ a.window_size > 1 =>
                \A f \in Fields :
                  SameList(attribute(record, f),
                           IF a.op = "avg"
                             THEN MeanOf(window, f) ELSE MaxOf(window, f))

C27_ShrinkDropsOldest == [][C27_Step]_vars

\* after a resize from 3 to 2 in max mode: the buffers hold two arrays, and
\* the running sums left from avg mode still hold the three arrays passed
C27_Witness ==
  /\ aggregate = Done("set")
  /\ aggregator # None
  /\ aggregator[1].op = "max"
  /\ aggregator[1].window_size = 2
  /\ Len(aggregator[1].buffers["spd"]) = 2
  /\ Len(given.samples) = 3
  /\ aggregator[1].running_sums["spd"] = Some(SumOf(given.samples, "spd"))


\* C28: add returns a record other than the one it was given, and leaves
\* the spd, the spd_raw and the units label of the record it was given as
\* they were.
C28_AddLeavesInputAlone ==
  aggregate.op = "add" =>
    /\ ~aggregate.value[1].same
    /\ aggregate.value[1].left.spd = aggregate.value[1].passed.spd
    /\ aggregate.value[1].left.spd_raw = aggregate.value[1].passed.spd_raw
    /\ aggregate.value[1].left.y_axis = aggregate.value[1].passed.y_axis


\* C29: a write of the caller into the spd or the spd_raw of a record it
\* passed to add changes nothing the aggregator holds, and every aggregate
\* returned later for a window above one is computed from the samples as
\* they were when passed.
C29_Step ==
  /\ (instance' # instance /\ given' = given) => aggregator' = aggregator
  /\ (aggregate'.op = "add" /\ given' # given
        /\ aggregator'[1].window_size > 1) =>
       LET window == Newest(given'.samples, given'.kept)
       IN  \A f \in Fields :
             SameList(attribute(aggregate'.value[1].record, f),
                      IF aggregator'[1].op = "avg"
                        THEN MeanOf(window, f) ELSE MaxOf(window, f))

C29_SamplesAreCopies == [][C29_Step]_vars

\* the caller has overwritten numbers in the lists it passed to add last,
\* and the buffers hold the numbers passed
C29_Witness ==
  /\ instance # None
  /\ instance[1].own
  /\ instance[1].record.spd_raw.sum[1] = Overwritten
  /\ instance[1].record.spd.values.sum[2] = Overwritten
  /\ aggregator[1].buffers["spd_raw"] # <<>>
  /\ Buffered(aggregator[1])[Len(aggregator[1].buffers["spd"])]
       = given.samples[Len(given.samples)]


(***************************************************************************)
(* torchbearer.py: get_range with a device that reports any bounds         *)
(***************************************************************************)
\* GET_RANGE answers: 340..1000 nm, 1000..340 nm and 340..340 nm, each as
\* two little-endian 16-bit numbers
RangeFrames ==
  { [t |-> GET_RANGE, p |-> <<84, 1, 232, 3>>],
    [t |-> GET_RANGE, p |-> <<232, 3, 84, 1>>],
    [t |-> GET_RANGE, p |-> <<84, 1, 84, 1>>] }

DeviceRange == Send(RangeFrames, MaxInFlight)

RangeNext ==
  DeviceRange \/ CallQuery \/ ReadMore \/ ReadUnexpected \/ GetRangeReply

SpecRange == SessionInit /\ [][RangeNext]_vars

\* C30: the wavelength range stored in the session, and the one stream_data
\* holds for its Spectrum records, has stop >= start whatever the device
\* reports in its GET_RANGE response.
C30_RangeOrdered ==
  /\ wavelength_range # None =>
       wavelength_range[1].stop >= wavelength_range[1].start
  /\ locals.spec_range # None =>
       locals.spec_range[1].stop >= locals.spec_range[1].start


(***************************************************************************)
(* protocol.py: _decode_spectrum.                                          *)
(*                                                                         *)
(* The integers the keys are made of are kept as their bytes, lowest       *)
(* first, so that no width is lost; a sample and a key are 16-bit numbers. *)
(* A float of the returned list is the whole number divided and the        *)
(* exponent of the scale 10 ** exponent it is divided by.                  *)
(***************************************************************************)
\* the most samples of a payload
MaxSamples == 3

Reverse(s) == [i \in 1..Len(s) |-> s[Len(s) + 1 - i]]

\* a ^ b
RECURSIVE XorInt(_, _)
XorInt(a, b) ==
  IF a = 0 THEN b
  ELSE IF b = 0 THEN a
  ELSE ((a + b) % 2) + 2 * XorInt(a \div 2, b \div 2)

ByteAt(s, i) == IF i <= Len(s) THEN s[i] ELSE 0

\* a ^ b on the bytes of a and b
XorBytes(s, t) ==
  [i \in 1..Max2(Len(s), Len(t)) |-> XorInt(ByteAt(s, i), ByteAt(t, i))]

\* a >> 16 on the bytes of a
ShiftRight16(s) == SubSeq(s, 3, Len(s))

\* a & 0xFFFF, as a number
LowWord(s) == ByteAt(s, 1) + 256 * ByteAt(s, 2)

\* line 46 after line 120: struct.pack("<f", microseconds / 1000), for the
\* exposure times of this model: 1.0 is 3F800000, 2.0 is 40000000
pack_float(exposure_time_us) ==
  IF exposure_time_us = 1000 THEN <<0, 0, 128, 63>> ELSE <<0, 0, 0, 64>>

\* lines 46-51: key_a and key_b of one frame
decode_keys(args) ==
  LET exposure_time_bytes == pack_float(args.exposure_time_us)
      exposure_time == exposure_time_bytes
      common == XorBytes(Reverse(exposure_time_bytes),
                         ShiftRight16(args.ex_info))
  IN  [key_a |->
         LowWord(XorBytes(XorBytes(XorBytes(common,
                   ShiftRight16(XorBytes(exposure_time, args.serial))),
                   args.serial), args.ex_info)),
       key_b |->
         LowWord(XorBytes(XorBytes(ShiftRight16(common), exposure_time),
                          args.serial))]

frame_keys_cached(cached, args) ==
  IF cached # None THEN cached[1] ELSE decode_keys(args)

\* lines 49-51: the keys are locals, computed in every call
frame_keys(cached, args) == decode_keys(args)

\* line 53: struct.unpack(">H", struct.pack("<H", encoded_exponent))[0] ^ 8848
decode_exponent(encoded_exponent) ==
  XorInt((encoded_exponent % 256) * 256 + encoded_exponent \div 256, 8848)

\* lines 56-61: the list returned
decode_spectrum(args, k) ==
  LET midpoint == Len(args.encoded_spectrum) \div 2
      exponent == decode_exponent(args.encoded_exponent)
  IN  [i \in 1..Len(args.encoded_spectrum) |->
         [n |-> XorInt(args.encoded_spectrum[i],
                       IF i - 1 < midpoint THEN k.key_a ELSE k.key_b),
          exponent |-> exponent]]

\* the lists of 16-bit samples line 116 unpacks, one of each length
SamplesUpTo(n) == {[i \in 1..m |-> 257 * i] : m \in 0..n}

\* the arguments of _decode_spectrum, as lines 110-127 unpack them
DecodeArgs ==
  [encoded_spectrum : SamplesUpTo(MaxSamples),
   encoded_exponent : {36898},
   exposure_time_us : {1000, 2000},
   serial : {<<1, 2, 3, 4>>, <<4, 3, 2, 1>>},
   ex_info : {<<1, 2, 3, 4, 5, 6, 7, 8>>, <<5, 0, 0, 0, 0, 0, 0, 0>>}]

\* _parse_message lines 121-127: one GET_DATA payload is decoded
Decode ==
  /\ \E args \in DecodeArgs :
       LET cached == IF decoding = None THEN None
                     ELSE Some([key_a |-> decoding[1].key_a,
                                key_b |-> decoding[1].key_b])
           k == frame_keys(cached, args)
       IN  decoding' = Some([args |-> args, key_a |-> k.key_a,
                             key_b |-> k.key_b,
                             out |-> decode_spectrum(args, k)])
  /\ \E keep \in BOOLEAN :
       earlier' = IF keep \/ decoding = None THEN earlier
                  ELSE Some([args |-> decoding[1].args,
                             out |-> decoding[1].out])
  /\ UNCHANGED <<codecVars, sessionVars, appVars, autoVars, slidingVars,
                 aggVars>>

DecodeInit ==
  /\ SlidingInit

SpecDecode == DecodeInit /\ [][Decode]_vars


Probed == instrument'.reads[Len(instrument'.reads)]

\* a step of the run that measured
Measuring == ctl'.total_meas = ctl.total_meas + 1

\* the peak at time t is within 15% of the target
NearTarget(t) ==
  100 * Abs(100 * peak(t) - target_intensity_x100) < 15 * target_intensity_x100

\* the extrapolation probe of C32: it follows at once a bisection probe
\* that is not overexposed, one step of the bisection makes at most one, its
\* time is within [probe time, current high] and differs from the probe
\* time by more than 10%.
ExtrapolationProbe ==
  /\ apc' = "predict" =>
       /\ apc = "loop"
       /\ Measuring
       /\ Probed = [t |-> ctl'.low, kind |-> "spectrum"]
       /\ ctl'.low = ctl'.best_time
       /\ ~overexposed(peak(ctl'.low))
       /\ ctl'.high = ctl.high
       /\ ctl'.test_time \in ctl'.low..ctl.high
       /\ 10 * (ctl'.test_time - ctl'.low) > ctl'.low
  /\ apc = "predict" =>
       /\ Measuring
       /\ Probed = [t |-> ctl.test_time, kind |-> "spectrum"]
       /\ ctl'.iteration = ctl.iteration
       /\ apc' \in {"loop", "done"}
  /\ apc = "loop" =>
       /\ ctl'.iteration = ctl.iteration + 1
       /\ ctl'.total_meas \in {ctl.total_meas, ctl.total_meas + 1}

\* C32 as stated: (the extrapolation probe as above, and) the search ends
\* as soon as a probe of the bisection that is not overexposed has its peak
\* within 15% of the target.
C32_EndsAtOnceWhenNear ==
  [][(/\ apc \in {"loop", "predict"}
      /\ Measuring
      /\ ~overexposed(peak(Probed.t))
      /\ NearTarget(Probed.t)) => apc' = "done"]_vars

\* C32, amended: the extrapolation probe as above; the search ends as soon
\* as the last probe of a bisection step, which is the extrapolation probe
\* when the step makes one and the bisection probe otherwise, is not
\* overexposed and has its peak within 15% of the target.  A bisection
\* probe within 15% of the target whose extrapolated time differs by more
\* than 10% is followed by the extrapolation probe all the same.
C32_Step ==
  /\ ExtrapolationProbe
  /\ (/\ apc \in {"loop", "predict"}
      /\ Measuring
      /\ apc' # "predict"
      /\ ~overexposed(peak(Probed.t))
      /\ NearTarget(Probed.t)) => apc' = "done"
  /\ (/\ apc = "loop"
      /\ Measuring
      /\ ~overexposed(peak(Probed.t))
      /\ 10 * (Within(predicted_time(Probed.t, peak(Probed.t)),
                      Probed.t, ctl.high) - Probed.t) > Probed.t)
       => apc' = "predict"

C32_ExtrapolationAndEarlyEnd == [][C32_Step]_vars

\* an extrapolation probe was made after a bisection probe within 15% of
\* the target, it was overexposed, and the search went on
C32_Witness ==
  /\ apc = "loop"
  /\ ctl.iteration >= 1
  /\ ctl.high = ctl.test_time
  /\ ctl.high > ctl.low
  /\ ctl.best_time = ctl.low
  /\ NearTarget(ctl.best_time)
  /\ instrument.reads[Len(instrument.reads)].t = ctl.high
  /\ overexposed(peak(ctl.high))
  /\ \E i \in 1..Len(instrument.reads) - 1 :
       /\ instrument.reads[i] = [t |-> ctl.low, kind |-> "spectrum"]
       /\ \A j \in i + 1..Len(instrument.reads) :
            instrument.reads[j].t = ctl.high


\* C33: whenever a SlidingMax exists, that is after every add and every
\* assignment of window_size, the timestamps of its deque do not decrease
\* and its values strictly decrease from front to back, and every entry is
\* younger than the window at the time of the last operation.
C33_DequeInvariant ==
  sliding # None =>
    LET d == sliding[1].max_deque IN
      /\ \A i \in 1..Len(d) - 1 :
           /\ d[i][1] <= d[i + 1][1]
           /\ d[i][2] > d[i + 1][2]
      /\ \A i \in 1..Len(d) : d[i][1] > clock - sliding[1].window_size
      /\ sliding[1].window_size > 0

\* an accepted assignment left two entries of three, the older one added
\* before the last tick of the window
C33_Witness ==
  /\ sliding # None
  /\ outcome.op = "resize"
  /\ outcome.exc = "none"
  /\ Len(entered.pairs) = 3
  /\ Len(sliding[1].max_deque) = 2
  /\ sliding[1].max_deque[1][1] < sliding[1].max_deque[2][1]
  /\ sliding[1].max_deque[1][1] = clock - sliding[1].window_size + 1


(***************************************************************************)
(* parse_messages on frames that declare a length below 9                  *)
(***************************************************************************)
\* the most bytes that follow the length field of such a frame
MaxShort == 3

\* 0D, 0A, a type that is none (55), STOP and the sum of CC 81 (4D)
ShortBytes == {13, 10, 85, STOP, 77}

ShortTails == UNION { [1..n -> ShortBytes] : n \in 0..MaxShort }

\* the buffers that start with CC 81 and a length field of 0..8
ShortBuffers ==
  { <<204, 129, length, 0, 0>> \o s : length \in 0..8, s \in ShortTails }

\* the receive buffer holds at most one whole frame and then a short one
ShortInit ==
  /\ cframes \in {<<>>} \cup { <<f>> : f \in TailInputs }
  /\ ctail \in ShortBuffers
  /\ cdata = inbound_stream(cframes) \o ctail
  /\ cmark = -1
  /\ ccap = 0
  /\ cbuilt = <<>>
  /\ cout = NoResult
  /\ cop = "input"
  /\ SessionStart

SpecShort == ShortInit /\ [][CodecParse]_vars

\* C34: parse_messages returns no message for a frame that declares a
\* total length of 0..8: on a buffer that starts with such a frame the call
\* raises or waits (returns the buffer as it is, and no message), after
\* whole frames it returns the messages of those at most, and what a call
\* returns is shorter than its buffer by at least 9 bytes for each message.
C34_ShortFramesYieldNothing ==
  cop = "parsed" =>
    /\ cframes = <<>> => (cout.exc # "none" \/ cout = Return(cdata, <<>>))
    /\ cout.exc = "none" =>
         /\ Len(cout.messages) <= Len(cframes)
         /\ Len(cdata) - Len(cout.data) >= 9 * Len(cout.messages)
         /\ cout.data = SubSeq(cdata, Len(cdata) - Len(cout.data) + 1,
                               Len(cdata))
         /\ Len(cout.messages) < ccap => cout.data = ctail
    /\ (ccap > Len(cframes) /\ cout.exc = "none") =>
         Len(ctail) < ctail[3]

\* a whole frame and then CC 81 08 00 00 55 0D 0A, whose checksum and end
\* bytes pass: the type 0x55 is none and the call raises
C34_Witness ==
  /\ cop = "parsed"
  /\ cframes # <<>>
  /\ ccap >= 2
  /\ ctail = <<204, 129, 8, 0, 0, 85, 13, 10>>
  /\ cout.exc = "ValueError"


\* C35: when cleanup has returned the session is closed, also when the
\* write of the final STOP failed: the port is None and the buffer is
\* empty, whatever the session is asked next raises at most 'Already
\* closed' and sends nothing, and a second cleanup raises nothing.
C35_CleanupAlwaysCloses ==
  [][result.op = "cleanup" =>
       /\ port = None
       /\ buffer = <<>>
       /\ tx' = <<>>
       /\ port' = None
       /\ result'.exc \in {"none", "Already closed"}]_vars


\* C36: the data a run returns are overexposed (peak at or above 98% of
\* full scale) only if they are the measurement at the lower bound and that
\* one is overexposed, after an overexposed initial measurement: when the
\* initial measurement or the one at the lower bound is below the
\* threshold, so is the peak of the data returned.
C36_ReturnedDataNotOverexposed ==
  apc = "done" =>
    LET d == returned[1].data[1] IN
      100 * d.max >= 98 * FullScale =>
        /\ d.at = ctl.min_time
        /\ ctl.total_meas = 2
        /\ d.read = Len(instrument.reads)
        /\ 100 * peak(ctl.min_time) >= 98 * FullScale
        /\ 100 * peak(ctl.init_time) >= 98 * FullScale

\* a run that measured overexposed probes in the bisection, the last of
\* them an extrapolation probe, and returned data below the threshold
C36_Witness ==
  /\ apc = "done"
  /\ ctl.high < ctl.init_time
  /\ ctl.high = ctl.test_time
  /\ overexposed(peak(ctl.high))
  /\ instrument.reads[Len(instrument.reads)].t = ctl.high
  /\ returned[1].time > ctl.min_time
  /\ returned[1].time < ctl.high
  /\ returned[1].data[1].max < 98


\* C37 as stated: during the bisection the recorded best time never
\* decreases, and the time returned is the longest time of the run's
\* measurements that were not overexposed.
C37_BestNeverDecreases ==
  [][/\ apc \in {"loop", "predict"} => ctl'.best_time >= ctl.best_time
     /\ (apc' = "done" /\ ~overexposed(peak(returned'[1].time))) =>
          \A i \in 1..Len(instrument'.reads) :
            (/\ instrument'.reads[i].kind = "spectrum"
             /\ ~overexposed(peak(instrument'.reads[i].t)))
              => instrument'.reads[i].t <= returned'[1].time]_vars


(***************************************************************************)
(* oceanoptics.py: the loop of stream_data in AUTOMATIC mode.  The time    *)
(* a run settled on is the initial time of the next run; the scene may     *)
(* change between two acquisitions.  The reads and the times programmed    *)
(* are those of the current acquisition.                                   *)
(***************************************************************************)
\* the most acquisitions of one stream_data
MaxAcquisitions == 2

\* lines 366-371: self.exposure_time = exp_time, and the next turn of the
\* loop calls _spd_with_auto(self.exposure_time)
NextAcquisition ==
  /\ apc = "done"
  /\ acquired + 1 < MaxAcquisitions
  /\ acquired' = acquired + 1
  /\ props' = [props EXCEPT !.exposure_time = returned[1].time]
  /\ gain' \in Gains
  /\ instrument' = [instrument EXCEPT !.reads = <<>>, !.programmed = {}]
  /\ ctl' = NoControl
  /\ apc' = "bounds"
  /\ returned' = None
  /\ UNCHANGED hw
  /\ UNCHANGED <<codecVars, sessionVars, appVars, commonVars>>

StreamNext ==
  AutoBounds \/ ProbeInit \/ ProbeMin \/ Bisect \/ Predict \/ NextAcquisition

SpecStream == AutoInit /\ [][StreamNext]_vars

\* C38: the time one run settles on is at most its clamped initial time;
\* stream_data stores it as the initial time of the next run, so with the
\* bounds unchanged the remembered exposure time never grows from the
\* second acquisition on, whatever the scene becomes.
C38_Step ==
  /\ (apc # "done" /\ apc' = "done") =>
       /\ returned'[1].time <= ctl'.init_time
       /\ ctl'.init_time = Within(props.exposure_time, ctl'.min_time,
                                  ctl'.max_time)
       /\ acquired >= 1 => returned'[1].time <= props.exposure_time
  /\ (apc = "done" /\ apc' # "done") =>
       /\ props'.exposure_time = returned[1].time
       /\ acquired >= 1 => props'.exposure_time <= props.exposure_time
  /\ (apc # "done" \/ apc' = "done") => props' = props

C38_RememberedTimeNeverGrows == [][C38_Step]_vars

\* a later acquisition of a scene so dim that its peak is below a tenth of
\* full scale has settled on a time below the upper bound and below the
\* time the stream started with
C38_Witness ==
  /\ apc = "done"
  /\ acquired >= 1
  /\ returned[1].time = props.exposure_time
  /\ returned[1].time < ctl.max_time
  /\ 10 * peak(returned[1].time) < FullScale
  /\ ctl.total_meas = 1


\* every measurement of a run returns: a run that can take a step takes it
SpecAutoFair == AutoInit /\ [][AutoNext]_vars /\ WF_vars(AutoNext)

\* C39: given that every instrument read returns, a run terminates, and it
\* never has measured more than twice per step of the bisection it has
\* begun, on top of the initial measurement and the one at the lower
\* bound, in at most auto_max_iterations steps: 2 + 2 x auto_max_iterations
\* measurements at most.
C39_TerminatesWithinBound ==
  /\ [](/\ ctl.iteration <= props.auto_max_iterations
        /\ ctl.total_meas <= 2 + 2 * ctl.iteration
        /\ apc \in {"bounds", "init"} => ctl.total_meas = 0
        /\ apc = "min" => ctl.total_meas = 1)
  /\ <>(apc = "done")

\* a run that ended after two or more steps with two measurements in each
C39_Witness ==
  /\ apc = "done"
  /\ ctl.iteration >= 2
  /\ ctl.total_meas = 2 + 2 * ctl.iteration
  /\ Measurements = ctl.total_meas


\* the element-wise sum of the arrays of a buffer that is not empty
RECURSIVE Total(_)
Total(buf) ==
  IF Len(buf) = 1 THEN buf[1].data
  ELSE [i \in 1..Len(buf[1].data) |-> buf[1].data[i] + Total(Tail(buf))[i]]

\* C40: whenever a SpectrumAggregator exists, that is after any sequence of
\* add, clear, window_size assignment and func switch, the buffers of spd
\* and spd_raw hold the same number of samples, at most window_size, and in
\* avg mode the running sum of each field is the element-wise sum of the
\* samples in its buffer (none for an empty buffer); the first add after a
\* clear returns the numbers of the sample added.
C40_AggregatorInvariant ==
  aggregator # None =>
    LET a == aggregator[1] IN
      /\ Len(a.buffers["spd"]) = Len(a.buffers["spd_raw"])
      /\ Len(a.buffers["spd"]) <= a.window_size
      /\ a.op = "avg" =>
           \A f \in Fields :
             a.running_sums[f] =
               IF a.buffers[f] = <<>> THEN None
               ELSE Some(Total(a.buffers[f]))
      /\ (aggregate.op = "add" /\ aggregate.value[1].follows = "clear") =>
           /\ Len(a.buffers["spd"]) = 1
           /\ SameList(aggregate.value[1].record.spd.values,
                       aggregate.value[1].passed.spd.values)
           /\ SameList(aggregate.value[1].record.spd_raw,
                       aggregate.value[1].passed.spd_raw)

\* an add that followed a clear, in avg mode with a window above one, has
\* returned its sample, which is also the running sum
C40_Witness ==
  /\ aggregator # None
  /\ aggregator[1].op = "avg"
  /\ aggregator[1].window_size >= 2
  /\ aggregate.op = "add"
  /\ aggregate.value[1].follows = "clear"
  /\ aggregator[1].running_sums["spd"] = Some(<<2, 2>>)
  /\ aggregate.value[1].record.spd_raw.of = 1

====
